---- MODULE Spec2Model ----
EXTENDS Integers, Sequences, FiniteSets, TLC

(***************************************************************************)
(* Model of the InviZible Pro service orchestration core.                  *)
(*                                                                         *)
(* Every manager is a Rust struct mutated through &mut self methods, all   *)
(* called from the single GUI thread.  A struct is a record-valued         *)
(* variable; a method is an operator from the struct (and the method's     *)
(* inputs and the outcomes of the system calls it makes) to a record       *)
(*     [self  |-> the struct after the call,                               *)
(*      logs  |-> the records the call hands to the shared Logger, in      *)
(*                order,                                                   *)
(*      path  |-> the values the displayed status takes during the call,   *)
(*                starting with the value before it,                       *)
(*      panic |-> whether the call panicked (expect/unwrap),               *)
(*      ret   |-> "Ok" or the error the call returned]                     *)
(* and an action applies one method to one manager and appends its         *)
(* records to the logger.                                                  *)
(*                                                                         *)
(* Spec is the program under its service switches, SpecEntities a session  *)
(* in one view's entity list, SpecRefresh and SpecImport the subscription  *)
(* refresh and the share-link import of VpnModule, SpecLogger the Logger   *)
(* alone, SpecBus the Logger behind its mutex under managers that log      *)
(* concurrently, SpecProxy a session in the proxy's view, SpecCapability   *)
(* the upstream switches with the proxy's capability flags, SpecArbiter    *)
(* the port functions of utils.rs, SpecValidation the forms and fields     *)
(* whose input can fail validation, SpecProfiles the VPN profiles under    *)
(* add, remove, import and refresh, SpecFrame the GUI thread one lock()    *)
(* at a time, SpecNodeType the node service settings of the Tor view.      *)
(*                                                                         *)
(* Status strings of the source are written in English:                    *)
(*   "Disabled" = "未连接", "Connecting" = "正在连接...",                  *)
(*   "Connected" = "已连接", "Failed" = "连接失败",                        *)
(*   "Stopped" = "未启动", "Running" = "运行中".                           *)
(* Log messages are likewise written in English.                           *)
(***************************************************************************)

VARIABLES
    current_tab,      \* InviZibleApp.current_tab: the view whose handlers can fire
    logger,           \* Arc<Mutex<Logger>>: the shared Logger
    tor_module,       \* InviZibleApp.tor_module
    dnscrypt_module,  \* InviZibleApp.dnscrypt_module
    i2p_module,       \* InviZibleApp.i2p_module
    firewall_module,  \* InviZibleApp.firewall_module
    proxy_module,     \* InviZibleApp.proxy_module
    vpn_module,       \* a VpnModule built on the same logger
    panicked,         \* the GUI thread has panicked: the program is gone
    last,             \* history: the last handler call
    prev,             \* history: the handler call before the last
    sent,             \* history: the records handed to Logger::log since it was empty
    allocated,        \* history: per collection, the ids given out, in order
    mutex,            \* Mutex<Logger>: the manager holding the lock, or None
    appending,        \* per manager, where its Logger::log call stands
    tor_children,     \* the processes TorModule has spawned: the newest, and
                      \* how many older ones still run
    port_checked,     \* history: the listen address and port as they stood at
                      \* the last check_port_conflict, or <<>> once either has
                      \* changed since
    frame             \* the GUI thread inside update(): where it stands and the
                      \* records the running handler has still to log

vars == <<current_tab, logger, tor_module, dnscrypt_module, i2p_module,
          firewall_module, proxy_module, vpn_module, panicked, last, prev,
          sent, allocated,
          mutex, appending, tor_children, port_checked, frame>>

None == "None"

\* Option<usize>::None where the Some values are ids, which start at 1.
NoId == 0

\* Option<u16>::None
NoPort == -1

----------------------------------------------------------------------------
(* logger.rs *)

\* Logger.max_logs is 1000 in the source (logger.rs:68); the model keeps the
\* same code with a small capacity so that eviction is reached.
max_logs == 1

\* A collection is given up to this many ids after construction.
MaxAdds == 2

\* Logger::log on a Logger of its own is explored with every capacity from 1
\* up to this one.
MaxCapacity == 2

\* import_vpn_url succeeds up to this many times in a session.
MaxImports == 1

\* A manager makes up to this many Logger::log calls of its own while other
\* managers make theirs.
MaxAppends == 2

LogLevel == {"Info", "Warning", "Error", "Debug"}

LogEntry(level, module, message) ==
    [level |-> level, module |-> module, message |-> message]

Logger_new ==
    [logs |-> <<>>, max_logs |-> max_logs, filter_level |-> None,
     filter_module |-> None]

\* The same with the newest record dropped instead of the oldest.
Logger_log_drop_newest(self, level, module, message) ==
    LET pushed == Append(self.logs, LogEntry(level, module, message))
    IN  [self EXCEPT !.logs = IF Len(pushed) > self.max_logs
                              THEN SubSeq(pushed, 1, Len(pushed) - 1)
                              ELSE pushed]

\* self.logs.push_back(entry)
Logger_push_back(self, entry) == [self EXCEPT !.logs = Append(@, entry)]

\* if self.logs.len() > self.max_logs { self.logs.pop_front(); }
Logger_trim(self) ==
    IF Len(self.logs) > self.max_logs THEN [self EXCEPT !.logs = Tail(@)]
    ELSE self

Logger_log(self, level, module, message) ==
    LET pushed == Append(self.logs, LogEntry(level, module, message))
    IN  [self EXCEPT !.logs = IF Len(pushed) > self.max_logs
                              THEN Tail(pushed)
                              ELSE pushed]

\* The same with the newest record left in the buffer.
Logger_clear_keep_newest(self) ==
    [self EXCEPT !.logs = IF self.logs = <<>> THEN <<>>
                          ELSE <<self.logs[Len(self.logs)]>>]

Logger_clear(self) == [self EXCEPT !.logs = <<>>]

\* The text of a module name or of a module filter, as its bytes.
name_bytes(name) ==
    CASE name = "Tor" -> <<84, 111, 114>>
      [] name = "Proxy" -> <<80, 114, 111, 120, 121>>
      [] name = "o" -> <<111>>
      [] name = "x" -> <<120>>
      [] name = "" -> <<>>

\* str::contains
contains(text, pattern) ==
    \E start \in 0 .. Len(text) - Len(pattern) :
       SubSeq(text, start + 1, start + Len(pattern)) = pattern

\* The records Logger::ui displays, in the order it displays them.
Logger_ui(self) ==
    SelectSeq(self.logs,
              LAMBDA log :
                /\ self.filter_level # None => log.level = self.filter_level
                /\ self.filter_module # None
                     => contains(name_bytes(log.module),
                                 name_bytes(self.filter_module)))

\* A message is the tuple of its fixed text and, for a format! with an
\* argument, the argument.
Info(module, text) == LogEntry("Info", module, <<text>>)
Warning(module, text) == LogEntry("Warning", module, <<text>>)
Error(module, text) == LogEntry("Error", module, <<text>>)
InfoFmt(module, text, arg) == LogEntry("Info", module, <<text, arg>>)
ErrorFmt(module, text, arg) == LogEntry("Error", module, <<text, arg>>)

\* A handler's records reach the logger one log() call at a time.
RECURSIVE LogAll(_, _)
LogAll(self, entries) ==
    IF entries = <<>> THEN self
    ELSE LogAll(Logger_log(self, Head(entries).level, Head(entries).module,
                           Head(entries).message),
                Tail(entries))

\* The managers InviZibleApp::new gives a clone of the Arc<Mutex<Logger>>
\* that are followed through their log calls, with the module name each
\* writes in its records.
Appenders == {"tor", "dnscrypt", "proxy"}

ModuleName(m) ==
    CASE m = "tor" -> "Tor"
      [] m = "dnscrypt" -> "DNSCrypt"
      [] m = "proxy" -> "Proxy"

\* Where a manager stands in `if let Ok(mut logger) = self.logger.lock()
\* { logger.log(..) }`: pc is "idle" outside it, "locked" once lock() has
\* returned the guard, "pushed" after push_back, "trimmed" after the length
\* test, and "idle" again when the guard is dropped; done counts the
\* manager's finished calls.
\* The GUI thread between two handlers: it holds no guard and has nothing
\* to log.
NoFrame == [pc |-> "idle", pending |-> <<>>]

NotAppending ==
    [m \in Appenders |-> [pc |-> "idle", entry |-> Info(ModuleName(m), 0),
                          done |-> 0]]

----------------------------------------------------------------------------
(* Vec<T> of entities with an id field. *)

\* iter().position(|e| e.id == id): the first index holding id, 0 for None.
Position(entities, id) ==
    IF \E i \in DOMAIN entities : entities[i].id = id
    THEN CHOOSE i \in DOMAIN entities :
           /\ entities[i].id = id
           /\ \A j \in 1 .. i - 1 : entities[j].id # id
    ELSE 0

\* Vec::remove(index)
RemoveAt(entities, index) ==
    SubSeq(entities, 1, index - 1) \o SubSeq(entities, index + 1, Len(entities))

\* The ids held by a collection, in order.
Ids(entities) == [i \in DOMAIN entities |-> entities[i].id]

IdSet(entities) == {entities[i].id : i \in DOMAIN entities}

----------------------------------------------------------------------------
(* The result of a handler call. *)

Result(self, logs, path, panic) ==
    [self |-> self, logs |-> logs, path |-> path, panic |-> panic, ret |-> "Ok",
     process |-> "keep"]

\* The call spawned a child process ("spawn") or sent kill() to the child
\* whose handle it took out of the slot ("kill").
WithProcess(r, effect) == [r EXCEPT !.process = effect]

\* The children of TorModule: `newest` is the state of the child spawned
\* last ("none" before the first spawn, then "running", "exited" once it has
\* ended by itself, "killed" once kill() has reached it) and `older` counts
\* the children spawned before it that still run.
NoChildren == [newest |-> "none", older |-> 0]

AfterProcess(children, effect) ==
    CASE effect = "spawn" ->
           [newest |-> "running",
            older |-> children.older + IF children.newest = "running" THEN 1 ELSE 0]
      [] effect = "kill" ->
           \* kill() on a child that has exited changes nothing
           [children EXCEPT !.newest = IF @ = "running" THEN "killed" ELSE @]
      [] OTHER -> children

\* The same call returning ret to its caller.
Returning(r, ret) == [r EXCEPT !.ret = ret]

\* A call that changes nothing, logs nothing and returns ret.
Unchanged(self, ret) == Returning(Result(self, <<>>, <<>>, FALSE), ret)

\* The fields every manager has under its own name.
EnabledIn(m, self) == IF m = "proxy" THEN self.config.enabled ELSE self.enabled

StatusIn(m, self) ==
    CASE m = "firewall" -> None
      [] m = "proxy" -> self.status
      [] OTHER -> self.connection_status

\* The selection reference of a manager's list; the proxy has none.
SelectionIn(m, self) ==
    CASE m = "tor" -> self.selected_bridge
      [] m = "dnscrypt" -> self.selected_server
      [] m = "i2p" -> self.selected_tunnel
      [] m = "firewall" -> self.selected_rule
      [] m = "vpn" -> self.selected_subscription
      [] OTHER -> NoId

\* History records: the manager and handler called, its argument, the
\* manager's enabled flag, status and selection before the call, and what the
\* call did.
NoCall == [mgr |-> None, op |-> None, arg |-> None, enabled |-> FALSE,
           status |-> None, selection |-> NoId, path |-> <<>>, emitted |-> <<>>,
           ret |-> None]

\* What is kept of the call before the last: a service toggle, or that it
\* was none.
Earlier(call) ==
    IF call.op \in {"toggle", "clear"}
    THEN [mgr |-> call.mgr, op |-> call.op, enabled |-> call.enabled,
          status |-> call.status, emitted |-> call.emitted]
    ELSE [mgr |-> None, op |-> None, enabled |-> FALSE, status |-> None,
          emitted |-> <<>>]

Call(mgr, op, arg, before, r) ==
    [mgr |-> mgr, op |-> op, arg |-> arg,
     enabled |-> EnabledIn(mgr, before), status |-> StatusIn(mgr, before),
     selection |-> SelectionIn(mgr, before),
     path |-> r.path, emitted |-> r.logs, ret |-> r.ret]

----------------------------------------------------------------------------
(* tor.rs *)

TorBridge_new(id, name, bridge_type, address) ==
    [id |-> id, name |-> name, bridge_type |-> bridge_type,
     address |-> address, enabled |-> TRUE]

TorModule_new ==
    [enabled |-> FALSE,
     bridges |-> << TorBridge_new(1, "Vanilla Bridge 1", "Vanilla", "192.0.2.1:9001"),
                    TorBridge_new(2, "Obfs4 Bridge 1", "Obfs4", "obfs4 192.0.2.2:9001"),
                    TorBridge_new(3, "Snowflake Bridge", "Snowflake", "snowflake 192.0.2.3:9001") >>,
     next_bridge_id |-> 4,
     selected_bridge |-> NoId,
     edit_mode |-> FALSE,
     run_as_node |-> FALSE,
     node_type |-> "Relay",
     connection_status |-> "Disabled",
     tor_process |-> None]

\* toggle_tor taking a toggle of a Failed service for a retry of the connect.
toggle_tor_retry_failed(self, spawn_ok, connect_ok) ==
    LET new_enabled == ~self.enabled \/ self.connection_status = "Failed"
        log1 == Info("Tor", IF new_enabled THEN "Tor enabled" ELSE "Tor disabled")
        status1 == IF new_enabled THEN "Connecting" ELSE "Disabled"
        s1 == [self EXCEPT !.enabled = new_enabled, !.connection_status = status1]
        path1 == <<self.connection_status, status1>>
    IN  IF new_enabled
        THEN IF ~spawn_ok
             THEN \* .spawn().expect(..) panics before tor_process is assigned
                  Result(s1, <<log1>>, path1, TRUE)
             ELSE LET s2 == [s1 EXCEPT !.tor_process = "Some"]
                  IN  WithProcess(
                        IF connect_ok
                        THEN Result([s2 EXCEPT !.connection_status = "Connected"],
                                    <<log1>>, Append(path1, "Connected"), FALSE)
                        ELSE Result([s2 EXCEPT !.connection_status = "Failed"],
                                    <<log1, Error("Tor", "connect failed")>>,
                                    Append(path1, "Failed"), FALSE),
                        "spawn")
        ELSE \* tor_process.take(), kill() with its result ignored
             WithProcess(Result([s1 EXCEPT !.tor_process = None], <<log1>>,
                                path1, FALSE),
                         IF self.tor_process # None THEN "kill" ELSE "keep")

\* toggle_tor: spawn_ok is whether Command::spawn succeeds, connect_ok whether
\* connect_to_tor (control-port connect and authenticate) succeeds.
\* The same with the disabling call leaving the slot and the child alone.
toggle_tor_keep_process(self, spawn_ok, connect_ok) ==
    LET new_enabled == ~self.enabled
        log1 == Info("Tor", IF new_enabled THEN "Tor enabled" ELSE "Tor disabled")
        status1 == IF new_enabled THEN "Connecting" ELSE "Disabled"
        s1 == [self EXCEPT !.enabled = new_enabled, !.connection_status = status1]
        path1 == <<self.connection_status, status1>>
    IN  IF new_enabled
        THEN IF ~spawn_ok
             THEN \* .spawn().expect(..) panics before tor_process is assigned
                  Result(s1, <<log1>>, path1, TRUE)
             ELSE LET s2 == [s1 EXCEPT !.tor_process = "Some"]
                  IN  WithProcess(
                        IF connect_ok
                        THEN Result([s2 EXCEPT !.connection_status = "Connected"],
                                    <<log1>>, Append(path1, "Connected"), FALSE)
                        ELSE Result([s2 EXCEPT !.connection_status = "Failed"],
                                    <<log1, Error("Tor", "connect failed")>>,
                                    Append(path1, "Failed"), FALSE),
                        "spawn")
        ELSE Result(s1, <<log1>>, path1, FALSE)

\* The same with the disabling call emptying the slot without kill().
toggle_tor_drop_handle(self, spawn_ok, connect_ok) ==
    LET new_enabled == ~self.enabled
        log1 == Info("Tor", IF new_enabled THEN "Tor enabled" ELSE "Tor disabled")
        status1 == IF new_enabled THEN "Connecting" ELSE "Disabled"
        s1 == [self EXCEPT !.enabled = new_enabled, !.connection_status = status1]
        path1 == <<self.connection_status, status1>>
    IN  IF new_enabled
        THEN IF ~spawn_ok
             THEN \* .spawn().expect(..) panics before tor_process is assigned
                  Result(s1, <<log1>>, path1, TRUE)
             ELSE LET s2 == [s1 EXCEPT !.tor_process = "Some"]
                  IN  WithProcess(
                        IF connect_ok
                        THEN Result([s2 EXCEPT !.connection_status = "Connected"],
                                    <<log1>>, Append(path1, "Connected"), FALSE)
                        ELSE Result([s2 EXCEPT !.connection_status = "Failed"],
                                    <<log1, Error("Tor", "connect failed")>>,
                                    Append(path1, "Failed"), FALSE),
                        "spawn")
        ELSE Result([s1 EXCEPT !.tor_process = None], <<log1>>, path1, FALSE)

toggle_tor(self, spawn_ok, connect_ok) ==
    LET new_enabled == ~self.enabled
        log1 == Info("Tor", IF new_enabled THEN "Tor enabled" ELSE "Tor disabled")
        status1 == IF new_enabled THEN "Connecting" ELSE "Disabled"
        s1 == [self EXCEPT !.enabled = new_enabled, !.connection_status = status1]
        path1 == <<self.connection_status, status1>>
    IN  IF new_enabled
        THEN IF ~spawn_ok
             THEN \* .spawn().expect(..) panics before tor_process is assigned
                  Result(s1, <<log1>>, path1, TRUE)
             ELSE LET s2 == [s1 EXCEPT !.tor_process = "Some"]
                  IN  WithProcess(
                        IF connect_ok
                        THEN Result([s2 EXCEPT !.connection_status = "Connected"],
                                    <<log1>>, Append(path1, "Connected"), FALSE)
                        ELSE Result([s2 EXCEPT !.connection_status = "Failed"],
                                    <<log1, Error("Tor", "connect failed")>>,
                                    Append(path1, "Failed"), FALSE),
                        "spawn")
        ELSE \* tor_process.take(), kill() with its result ignored
             WithProcess(Result([s1 EXCEPT !.tor_process = None], <<log1>>,
                                path1, FALSE),
                         IF self.tor_process # None THEN "kill" ELSE "keep")

\* The same with the id cursor left where it is.
add_bridge_keep_cursor(self, bridge) ==
    Result([self EXCEPT !.bridges = Append(@, bridge)],
           <<InfoFmt("Tor", "add bridge", bridge.name)>>, <<>>, FALSE)

add_bridge(self, bridge) ==
    Result([self EXCEPT !.bridges = Append(@, bridge), !.next_bridge_id = @ + 1],
           <<InfoFmt("Tor", "add bridge", bridge.name)>>, <<>>, FALSE)

remove_bridge(self, id) ==
    LET index == Position(self.bridges, id)
    IN  IF index # 0
        THEN Result([self EXCEPT !.bridges = RemoveAt(@, index),
                                 !.selected_bridge = IF @ = id THEN NoId ELSE @],
                    <<InfoFmt("Tor", "remove bridge", self.bridges[index].name)>>,
                    <<>>, FALSE)
        ELSE Result(self, <<>>, <<>>, FALSE)

toggle_bridge(self, id) ==
    LET index == Position(self.bridges, id)
    IN  IF index # 0
        THEN Result([self EXCEPT !.bridges[index].enabled = ~@],
                    <<InfoFmt("Tor", IF self.bridges[index].enabled
                                     THEN "bridge disabled" ELSE "bridge enabled",
                              self.bridges[index].name)>>,
                    <<>>, FALSE)
        ELSE Result(self, <<>>, <<>>, FALSE)

\* TorModule::ui: the "add bridge" button opens the form.
tor_add_button(self) == Result([self EXCEPT !.edit_mode = TRUE], <<>>, <<>>, FALSE)

\* TorModule::ui: a click on a bridge's name selects it.
tor_select(self, id) == Result([self EXCEPT !.selected_bridge = id], <<>>, <<>>, FALSE)

\* TorModule::ui: a bridge's "edit" button selects it and opens the form.
tor_edit_button(self, id) ==
    Result([self EXCEPT !.selected_bridge = id, !.edit_mode = TRUE], <<>>, <<>>, FALSE)

\* TorModule::ui: the "run a node" checkbox flips run_as_node.
tor_run_as_node(self) ==
    Result([self EXCEPT !.run_as_node = ~@], <<>>, <<>>, FALSE)

\* TorModule::toggle_node_type
toggle_node_type(self) ==
    LET node_type == IF self.node_type = "Relay" THEN "Exit" ELSE "Relay"
    IN  Result([self EXCEPT !.node_type = node_type],
               <<InfoFmt("Tor", "node type changed", node_type)>>, <<>>, FALSE)

\* TorModule::ui: a click on the node type label.  While the type is Relay
\* the warning window is shown in the same frame and `confirmed` tells
\* whether its button was clicked; toggle_node_type is called inside the
\* confirmation test and once more after the warning label.
tor_node_type_control(self, confirmed) ==
    IF self.node_type = "Relay"
    THEN LET r1 == IF confirmed THEN toggle_node_type(self)
                   ELSE Result(self, <<>>, <<>>, FALSE)
             r2 == toggle_node_type(r1.self)
         IN  Result(r2.self, r1.logs \o r2.logs, <<>>, FALSE)
    ELSE toggle_node_type(self)

\* TorModule::ui: the form's "cancel" button.
tor_cancel(self) == Result([self EXCEPT !.edit_mode = FALSE], <<>>, <<>>, FALSE)

\* The save button with the id cursor moved before the fields are looked at.
tor_save_count_first(self, name, bridge_type, address) ==
    IF name # "" /\ address # ""
    THEN LET r == add_bridge(self, TorBridge_new(self.next_bridge_id, name,
                                                 bridge_type, address))
         IN  [r EXCEPT !.self.edit_mode = FALSE]
    ELSE Result([self EXCEPT !.next_bridge_id = @ + 1], <<>>, <<>>, FALSE)

\* TorModule::ui: the form's "save" button, the form holding name, bridge_type
\* and address.  The form's text fields are cleared by every path that closes
\* it and are an input of the handler here.
tor_save(self, name, bridge_type, address) ==
    IF name # "" /\ address # ""
    THEN LET r == add_bridge(self, TorBridge_new(self.next_bridge_id, name,
                                                 bridge_type, address))
         IN  [r EXCEPT !.self.edit_mode = FALSE]
    ELSE Result(self, <<>>, <<>>, FALSE)

----------------------------------------------------------------------------
(* dnscrypt.rs *)

DnsCryptServer_new(id, name, address, provider_name) ==
    [id |-> id, name |-> name, address |-> address,
     provider_name |-> provider_name, enabled |-> TRUE]

DnsCryptModule_new ==
    [enabled |-> FALSE,
     servers |-> << DnsCryptServer_new(1, "Cloudflare", "1.1.1.1:443", "2.dnscrypt-cert.cloudflare"),
                    DnsCryptServer_new(2, "Google", "8.8.8.8:443", "2.dnscrypt-cert.google"),
                    DnsCryptServer_new(3, "Quad9", "9.9.9.9:443", "2.dnscrypt-cert.quad9") >>,
     next_server_id |-> 4,
     selected_server |-> NoId,
     edit_mode |-> FALSE,
     connection_status |-> "Disabled"]

toggle_dnscrypt(self) ==
    LET new_enabled == ~self.enabled
        log1 == Info("DNSCrypt", IF new_enabled THEN "DNSCrypt enabled" ELSE "DNSCrypt disabled")
        status1 == IF new_enabled THEN "Connecting" ELSE "Disabled"
        s1 == [self EXCEPT !.enabled = new_enabled, !.connection_status = status1]
        path1 == <<self.connection_status, status1>>
    IN  IF new_enabled
        THEN Result([s1 EXCEPT !.connection_status = "Connected"], <<log1>>,
                    Append(path1, "Connected"), FALSE)
        ELSE Result(s1, <<log1>>, path1, FALSE)

add_server(self, server) ==
    Result([self EXCEPT !.servers = Append(@, server), !.next_server_id = @ + 1],
           <<InfoFmt("DNSCrypt", "add server", server.name)>>, <<>>, FALSE)

\* The same with the selection left where it is.
remove_server_keep_selection(self, id) ==
    LET index == Position(self.servers, id)
    IN  IF index # 0
        THEN Result([self EXCEPT !.servers = RemoveAt(@, index)],
                    <<InfoFmt("DNSCrypt", "remove server", self.servers[index].name)>>,
                    <<>>, FALSE)
        ELSE Result(self, <<>>, <<>>, FALSE)

remove_server(self, id) ==
    LET index == Position(self.servers, id)
    IN  IF index # 0
        THEN Result([self EXCEPT !.servers = RemoveAt(@, index),
                                 !.selected_server = IF @ = id THEN NoId ELSE @],
                    <<InfoFmt("DNSCrypt", "remove server", self.servers[index].name)>>,
                    <<>>, FALSE)
        ELSE Result(self, <<>>, <<>>, FALSE)

toggle_server(self, id) ==
    LET index == Position(self.servers, id)
    IN  IF index # 0
        THEN Result([self EXCEPT !.servers[index].enabled = ~@],
                    <<InfoFmt("DNSCrypt", IF self.servers[index].enabled
                                     THEN "server disabled" ELSE "server enabled",
                              self.servers[index].name)>>,
                    <<>>, FALSE)
        ELSE Result(self, <<>>, <<>>, FALSE)

\* DnsCryptModule::ui: the "add server" button opens the form.
dnscrypt_add_button(self) == Result([self EXCEPT !.edit_mode = TRUE], <<>>, <<>>, FALSE)

\* DnsCryptModule::ui: a click on a server's name selects it.
dnscrypt_select(self, id) == Result([self EXCEPT !.selected_server = id], <<>>, <<>>, FALSE)

\* DnsCryptModule::ui: a server's "edit" button selects it and opens the form.
dnscrypt_edit_button(self, id) ==
    Result([self EXCEPT !.selected_server = id, !.edit_mode = TRUE], <<>>, <<>>, FALSE)

\* DnsCryptModule::ui: the form's "cancel" button.
dnscrypt_cancel(self) == Result([self EXCEPT !.edit_mode = FALSE], <<>>, <<>>, FALSE)

\* DnsCryptModule::ui: the form's "save" button.
dnscrypt_save(self, name, address, provider_name) ==
    IF name # "" /\ address # "" /\ provider_name # ""
    THEN LET r == add_server(self, DnsCryptServer_new(self.next_server_id, name,
                                                      address, provider_name))
         IN  [r EXCEPT !.self.edit_mode = FALSE]
    ELSE Result(self, <<>>, <<>>, FALSE)

----------------------------------------------------------------------------
(* i2p.rs *)

I2PTunnel_new(id, name, tunnel_type, local_port, destination) ==
    [id |-> id, name |-> name, tunnel_type |-> tunnel_type,
     local_port |-> local_port, destination |-> destination, enabled |-> TRUE]

I2PModule_new ==
    [enabled |-> FALSE,
     tunnels |-> << I2PTunnel_new(1, "HTTP proxy", "Client", 4444, "http://i2p-projekt.i2p"),
                    I2PTunnel_new(2, "SOCKS proxy", "Client", 4447, "socks://localhost:4447"),
                    I2PTunnel_new(3, "IRC server", "Client", 6668, "irc://irc.postman.i2p") >>,
     next_tunnel_id |-> 4,
     selected_tunnel |-> NoId,
     edit_mode |-> FALSE,
     connection_status |-> "Disabled",
     bandwidth_in |-> 0,
     bandwidth_out |-> 0]

toggle_i2p(self) ==
    LET new_enabled == ~self.enabled
        log1 == Info("I2P", IF new_enabled THEN "I2P enabled" ELSE "I2P disabled")
        status1 == IF new_enabled THEN "Connecting" ELSE "Disabled"
        s1 == [self EXCEPT !.enabled = new_enabled, !.connection_status = status1]
        path1 == <<self.connection_status, status1>>
    IN  IF new_enabled
        THEN Result([s1 EXCEPT !.connection_status = "Connected",
                               !.bandwidth_in = 128, !.bandwidth_out = 64],
                    <<log1>>, Append(path1, "Connected"), FALSE)
        ELSE Result([s1 EXCEPT !.bandwidth_in = 0, !.bandwidth_out = 0],
                    <<log1>>, path1, FALSE)

add_tunnel(self, tunnel) ==
    Result([self EXCEPT !.tunnels = Append(@, tunnel), !.next_tunnel_id = @ + 1],
           <<InfoFmt("I2P", "add tunnel", tunnel.name)>>, <<>>, FALSE)

remove_tunnel(self, id) ==
    LET index == Position(self.tunnels, id)
    IN  IF index # 0
        THEN Result([self EXCEPT !.tunnels = RemoveAt(@, index),
                                 !.selected_tunnel = IF @ = id THEN NoId ELSE @],
                    <<InfoFmt("I2P", "remove tunnel", self.tunnels[index].name)>>,
                    <<>>, FALSE)
        ELSE Result(self, <<>>, <<>>, FALSE)

\* I2PModule::ui: a tunnel's checkbox writes the new value into the tunnel;
\* there is no toggle_tunnel and nothing is logged.
i2p_checkbox(self, id) ==
    LET index == Position(self.tunnels, id)
    IN  IF index # 0
        THEN Result([self EXCEPT !.tunnels[index].enabled = ~@], <<>>, <<>>, FALSE)
        ELSE Result(self, <<>>, <<>>, FALSE)

\* I2PModule::ui: the "add tunnel" button opens the form.
i2p_add_button(self) == Result([self EXCEPT !.edit_mode = TRUE], <<>>, <<>>, FALSE)

\* I2PModule::ui: a click on a tunnel's name selects it.
i2p_select(self, id) == Result([self EXCEPT !.selected_tunnel = id], <<>>, <<>>, FALSE)

\* I2PModule::ui: a tunnel's "edit" button selects it and opens the form.
i2p_edit_button(self, id) ==
    Result([self EXCEPT !.selected_tunnel = id, !.edit_mode = TRUE], <<>>, <<>>, FALSE)

\* I2PModule::ui: the form's "cancel" button.
i2p_cancel(self) == Result([self EXCEPT !.edit_mode = FALSE], <<>>, <<>>, FALSE)

\* I2PModule::ui: the form's "save" button.
i2p_save(self, name, tunnel_type, local_port, destination) ==
    IF name # "" /\ destination # "" /\ local_port > 0
    THEN LET r == add_tunnel(self, I2PTunnel_new(self.next_tunnel_id, name,
                                                 tunnel_type, local_port, destination))
         IN  [r EXCEPT !.self.edit_mode = FALSE]
    ELSE Result(self, <<>>, <<>>, FALSE)

----------------------------------------------------------------------------
(* firewall.rs *)

FirewallRule_new(id, name, rule_type) ==
    [id |-> id, name |-> name, rule_type |-> rule_type, action |-> "Block",
     enabled |-> TRUE, application_path |-> None, port |-> NoPort,
     protocol |-> "TCP", address |-> None]

FirewallModule_new ==
    [enabled |-> FALSE,
     rules |-> << [FirewallRule_new(1, "block example app", "Application")
                      EXCEPT !.application_path = "C:\\Program Files\\Example\\example.exe"],
                  [FirewallRule_new(2, "block remote desktop", "Port")
                      EXCEPT !.port = 3389],
                  [FirewallRule_new(3, "block address", "Address")
                      EXCEPT !.address = "192.168.1.100"] >>,
     next_rule_id |-> 4,
     selected_rule |-> NoId,
     edit_mode |-> FALSE]

\* The firewall has no status text: the UI shows the enabled flag.
toggle_firewall(self) ==
    LET s1 == [self EXCEPT !.enabled = ~self.enabled]
    IN  Result(s1,
               <<Info("Firewall", IF s1.enabled THEN "firewall enabled" ELSE "firewall disabled")>>,
               <<>>, FALSE)

add_rule(self, rule) ==
    Result([self EXCEPT !.rules = Append(@, rule), !.next_rule_id = @ + 1],
           <<InfoFmt("Firewall", "add rule", rule.name)>>, <<>>, FALSE)

remove_rule(self, id) ==
    LET index == Position(self.rules, id)
    IN  IF index # 0
        THEN Result([self EXCEPT !.rules = RemoveAt(@, index),
                                 !.selected_rule = IF @ = id THEN NoId ELSE @],
                    <<InfoFmt("Firewall", "remove rule", self.rules[index].name)>>,
                    <<>>, FALSE)
        ELSE Result(self, <<>>, <<>>, FALSE)

\* toggle_rule with a record for an id it does not find.
toggle_rule_log_missing(self, id) ==
    LET index == Position(self.rules, id)
    IN  IF index # 0
        THEN Result([self EXCEPT !.rules[index].enabled = ~@],
                    <<InfoFmt("Firewall", IF self.rules[index].enabled
                                     THEN "rule disabled" ELSE "rule enabled",
                              self.rules[index].name)>>,
                    <<>>, FALSE)
        ELSE Result(self, <<InfoFmt("Firewall", "rule disabled", id)>>, <<>>, FALSE)

toggle_rule(self, id) ==
    LET index == Position(self.rules, id)
    IN  IF index # 0
        THEN Result([self EXCEPT !.rules[index].enabled = ~@],
                    <<InfoFmt("Firewall", IF self.rules[index].enabled
                                     THEN "rule disabled" ELSE "rule enabled",
                              self.rules[index].name)>>,
                    <<>>, FALSE)
        ELSE Result(self, <<>>, <<>>, FALSE)

\* FirewallModule::ui: the "add rule" button opens the form.
firewall_add_button(self) == Result([self EXCEPT !.edit_mode = TRUE], <<>>, <<>>, FALSE)

\* FirewallModule::ui: a click on a rule's name selects it.
firewall_select(self, id) == Result([self EXCEPT !.selected_rule = id], <<>>, <<>>, FALSE)

\* FirewallModule::ui: a rule's "edit" button selects it and opens the form.
firewall_edit_button(self, id) ==
    Result([self EXCEPT !.selected_rule = id, !.edit_mode = TRUE], <<>>, <<>>, FALSE)

\* FirewallModule::ui: the form's "cancel" button.
firewall_cancel(self) == Result([self EXCEPT !.edit_mode = FALSE], <<>>, <<>>, FALSE)

\* FirewallModule::ui: the form's "save" button.  (The "add rule" button of
\* the running-applications list calls add_rule the same way, with the
\* cursor as id; the list itself is left out.)
firewall_save(self, name, rule_type) ==
    IF name # ""
    THEN LET r == add_rule(self, FirewallRule_new(self.next_rule_id, name, rule_type))
         IN  [r EXCEPT !.self.edit_mode = FALSE]
    ELSE Result(self, <<>>, <<>>, FALSE)

----------------------------------------------------------------------------
(* proxy.rs *)

ProxyConfig_default ==
    [enabled |-> FALSE, protocol |-> "SOCKS5", listen_address |-> "127.0.0.1",
     listen_port |-> 1080, tor_enabled |-> TRUE, dnscrypt_enabled |-> TRUE,
     i2p_enabled |-> TRUE]

ProxyModule_new ==
    [config |-> ProxyConfig_default, status |-> "Stopped",
     port_conflict |-> FALSE, port_checking |-> FALSE]

start_proxy(self) ==
    IF self.port_conflict
    THEN Result(self, <<Error("Proxy", "cannot start: port conflict")>>,
                <<self.status>>, FALSE)
    ELSE Result([self EXCEPT !.config.enabled = TRUE, !.status = "Running"],
                <<Info("Proxy", "proxy started")>>,
                <<self.status, "Running">>, FALSE)

stop_proxy(self) ==
    Result([self EXCEPT !.config.enabled = FALSE, !.status = "Stopped"],
           <<Info("Proxy", "proxy stopped")>>,
           <<self.status, "Stopped">>, FALSE)

\* The start/stop button of ProxyModule::ui.
proxy_button(self) ==
    IF self.config.enabled THEN stop_proxy(self) ELSE start_proxy(self)

\* One call after another in the same handler: the second runs on what the
\* first left.
JoinPaths(p, q) == IF p = <<>> THEN q ELSE IF q = <<>> THEN p ELSE p \o Tail(q)

AndThen(r1, r2) ==
    Result(r2.self, r1.logs \o r2.logs, JoinPaths(r1.path, r2.path),
           r1.panic \/ r2.panic)

\* check_port_conflict: the probe is a placeholder, port_in_use is the
\* literal false, whatever listens on the port.
check_port_conflict(self) ==
    LET port_in_use == FALSE
    IN  Result([self EXCEPT !.port_conflict = port_in_use, !.port_checking = FALSE],
               <<InfoFmt("Proxy", "checking port", self.config.listen_port),
                 IF port_in_use
                 THEN LogEntry("Warning", "Proxy", <<"port in use", self.config.listen_port>>)
                 ELSE InfoFmt("Proxy", "port available", self.config.listen_port)>>,
               <<>>, FALSE)

\* stop_proxy(); start_proxy();
restart_proxy(self) == AndThen(stop_proxy(self), start_proxy(stop_proxy(self).self))

\* stop_proxy(); if !port_conflict { start_proxy() }
restart_proxy_unless_conflict(stopped) ==
    IF stopped.self.port_conflict THEN stopped
    ELSE AndThen(stopped, start_proxy(stopped.self))

toggle_protocol(self) ==
    LET protocol == IF self.config.protocol = "HTTP" THEN "SOCKS5" ELSE "HTTP"
        s1 == [self EXCEPT !.config.protocol = protocol]
        r1 == Result(s1, <<InfoFmt("Proxy", "protocol changed", protocol)>>, <<>>, FALSE)
    IN  IF self.config.enabled THEN AndThen(r1, restart_proxy(s1)) ELSE r1

\* The listen address field of ProxyModule::ui, changed to listen_address.
proxy_listen_address(self, listen_address) ==
    LET s1 == [self EXCEPT !.config.listen_address = listen_address]
    IN  IF self.config.enabled THEN restart_proxy(s1)
        ELSE Result(s1, <<>>, <<>>, FALSE)

\* The listen port field with its text parsed to port.
proxy_port_parsed(self, port) ==
    IF port.ok /\ port.v # self.config.listen_port
    THEN IF self.config.enabled
         THEN AndThen(check_port_conflict([self EXCEPT !.config.listen_port = port.v]),
                      restart_proxy_unless_conflict(
                          stop_proxy(check_port_conflict(
                              [self EXCEPT !.config.listen_port = port.v]).self)))
         ELSE check_port_conflict([self EXCEPT !.config.listen_port = port.v])
    ELSE Result(self, <<>>, <<>>, FALSE)

\* The capability checkboxes of ProxyModule::ui.
proxy_checkbox(self, flag) ==
    Result([self EXCEPT !.config[flag] = ~@], <<>>, <<>>, FALSE)

\* The copy button, shown while the proxy is enabled.
proxy_copy_button(self) ==
    Result(self, <<Info("Proxy", "proxy address copied")>>, <<>>, FALSE)

----------------------------------------------------------------------------
(* Text.  A Rust String or &str is the sequence of its UTF-8 bytes and a    *)
(* Vec<u8> the sequence of its bytes; the library calls the decoders make   *)
(* are computed on these sequences.                                         *)

\* Result<T, E> (and Option<T>) of a call: v is the value of Ok (Some), e the
\* error of Err.
Ok(v) == [ok |-> TRUE, v |-> v, e |-> "None"]
Err(v, e) == [ok |-> FALSE, v |-> v, e |-> e]

\* str::starts_with
starts_with(s, prefix) ==
    /\ Len(s) >= Len(prefix)
    /\ SubSeq(s, 1, Len(prefix)) = prefix

\* &s[n..]: the string without its first n bytes.
From(s, n) == SubSeq(s, n + 1, Len(s))

\* str::find(char): the 1-based index of the first occurrence of byte c, 0 for
\* None.
find(s, c) ==
    IF \E i \in DOMAIN s : s[i] = c
    THEN CHOOSE i \in DOMAIN s : s[i] = c /\ \A j \in 1 .. i - 1 : s[j] # c
    ELSE 0

\* str::split(char): the pieces between the occurrences of byte c.
RECURSIVE split(_, _)
split(s, c) ==
    LET i == find(s, c)
    IN  IF i = 0 THEN <<s>>
        ELSE <<SubSeq(s, 1, i - 1)>> \o split(From(s, i), c)

\* str::splitn(2, char): at most two pieces, cut at the first occurrence.
splitn2(s, c) ==
    LET i == find(s, c)
    IN  IF i = 0 THEN <<s>> ELSE <<SubSeq(s, 1, i - 1), From(s, i)>>

\* str::replace(from, ""): every occurrence of from removed, left to right.
RECURSIVE remove_all(_, _)
remove_all(s, from) ==
    IF s = <<>> THEN <<>>
    ELSE IF starts_with(s, from) THEN remove_all(From(s, Len(from)), from)
    ELSE <<Head(s)>> \o remove_all(Tail(s), from)

\* str::to_lowercase on the ASCII letters.
to_lowercase(s) ==
    [i \in DOMAIN s |-> IF s[i] >= 65 /\ s[i] <= 90 THEN s[i] + 32 ELSE s[i]]

\* The value of a string of decimal digits, most significant first.
RECURSIVE DigitsValue(_, _)
DigitsValue(s, acc) ==
    IF s = <<>> THEN acc ELSE DigitsValue(Tail(s), acc * 10 + (Head(s) - 48))

RECURSIVE StripZeros(_)
StripZeros(s) == IF s # <<>> /\ Head(s) = 48 THEN StripZeros(Tail(s)) ELSE s

\* str::parse::<u16>(): an optional '+', then at least one decimal digit and
\* nothing else, the value at most 65535.
parse_u16(s) ==
    LET digits == IF s # <<>> /\ Head(s) = 43 THEN Tail(s) ELSE s
        significant == StripZeros(digits)
    IN  IF /\ digits # <<>>
           /\ \A i \in DOMAIN digits : digits[i] >= 48 /\ digits[i] <= 57
           /\ Len(significant) <= 5
           /\ DigitsValue(significant, 0) <= 65535
        THEN Ok(DigitsValue(significant, 0))
        ELSE Err(0, "ParseIntError")

\* usize Display, as format!("{}", n) writes it.
RECURSIVE to_string(_)
to_string(n) ==
    IF n < 10 THEN <<48 + n>> ELSE to_string(n \div 10) \o <<48 + (n % 10)>>

\* base64 STANDARD alphabet: the value of a symbol, -1 for a byte outside it.
Sextet(c) ==
    CASE c >= 65 /\ c <= 90 -> c - 65
      [] c >= 97 /\ c <= 122 -> c - 71
      [] c >= 48 /\ c <= 57 -> c + 4
      [] c = 43 -> 62
      [] c = 47 -> 63
      [] OTHER -> -1

\* The bytes of full groups of four symbols.
RECURSIVE DecodeGroups(_)
DecodeGroups(s) ==
    IF Len(s) < 4 THEN <<>>
    ELSE LET n == Sextet(s[1]) * 262144 + Sextet(s[2]) * 4096
                  + Sextet(s[3]) * 64 + Sextet(s[4])
         IN  <<n \div 65536, (n \div 256) % 256, n % 256>>
             \o DecodeGroups(From(s, 4))

\* general_purpose::STANDARD.decode: canonical padding is required, so the
\* length is a multiple of four, '=' stands only in the last one or two
\* places, and the bits of the last symbol that carry no data are zero.
base64_decode(s) ==
    LET n == Len(s)
        pad == IF n >= 2 /\ s[n] = 61 /\ s[n - 1] = 61 THEN 2
               ELSE IF n >= 1 /\ s[n] = 61 THEN 1 ELSE 0
        symbols == SubSeq(s, 1, n - pad)
        m == Len(symbols)
        whole == DecodeGroups(SubSeq(symbols, 1, m - (m % 4)))
    IN  IF \/ n % 4 # 0
           \/ \E i \in DOMAIN symbols : Sextet(symbols[i]) = -1
        THEN Err(<<>>, "DecodeError")
        ELSE IF pad = 0 THEN Ok(whole)
        ELSE IF pad = 1
        THEN LET a == Sextet(symbols[m - 2])
                 b == Sextet(symbols[m - 1])
                 c == Sextet(symbols[m])
             IN  IF c % 4 # 0 THEN Err(<<>>, "DecodeError")
                 ELSE Ok(whole \o <<a * 4 + b \div 16, (b % 16) * 16 + c \div 4>>)
        ELSE LET a == Sextet(symbols[m - 1])
                 b == Sextet(symbols[m])
             IN  IF b % 16 # 0 THEN Err(<<>>, "DecodeError")
                 ELSE Ok(whole \o <<a * 4 + b \div 16>>)

\* Whether bytes are well-formed UTF-8.
RECURSIVE is_utf8(_)
is_utf8(b) ==
    LET Cont(i, lo, hi) == Len(b) >= i /\ b[i] >= lo /\ b[i] <= hi
        h == Head(b)
    IN  IF b = <<>> THEN TRUE
        ELSE IF h < 128 THEN is_utf8(Tail(b))
        ELSE IF h >= 194 /\ h <= 223
        THEN Cont(2, 128, 191) /\ is_utf8(From(b, 2))
        ELSE IF h >= 224 /\ h <= 239
        THEN /\ Cont(2, IF h = 224 THEN 160 ELSE 128, IF h = 237 THEN 159 ELSE 191)
             /\ Cont(3, 128, 191)
             /\ is_utf8(From(b, 3))
        ELSE IF h >= 240 /\ h <= 244
        THEN /\ Cont(2, IF h = 240 THEN 144 ELSE 128, IF h = 244 THEN 143 ELSE 191)
             /\ Cont(3, 128, 191)
             /\ Cont(4, 128, 191)
             /\ is_utf8(From(b, 4))
        ELSE FALSE

\* String::from_utf8
from_utf8(b) == IF is_utf8(b) THEN Ok(b) ELSE Err(<<>>, "FromUtf8Error")

\* serde_json::Value.  The grammar read here is the JSON of the inputs the
\* decoders are given: one scalar, or one object whose members are scalars,
\* with no white space, no escapes in strings and integers without fraction
\* or exponent.
JsonNull == [t |-> "Null", s |-> <<>>, n |-> 0, members |-> <<>>]
JsonBool(b) == [t |-> "Bool", s |-> <<>>, n |-> IF b THEN 1 ELSE 0, members |-> <<>>]
JsonString(s) == [t |-> "String", s |-> s, n |-> 0, members |-> <<>>]
JsonNumber(n) == [t |-> "Number", s |-> <<>>, n |-> n, members |-> <<>>]
JsonObject(members) == [t |-> "Object", s |-> <<>>, n |-> 0, members |-> members]

\* A parse that stopped before index next.
At(ok, v, next) == [ok |-> ok, v |-> v, next |-> next]

\* The index of the '"' closing the string that opens at i, 0 for none.
StringEnd(s, i) ==
    LET close == {j \in i + 1 .. Len(s) : s[j] = 34}
    IN  IF close = {} THEN 0
        ELSE LET j == CHOOSE j \in close : \A k \in close : j <= k
             IN  IF \A k \in i + 1 .. j - 1 : s[k] >= 32 /\ s[k] # 92
                 THEN j ELSE 0

\* The index after the digits that start at i.
RECURSIVE DigitsEnd(_, _)
DigitsEnd(s, i) ==
    IF i <= Len(s) /\ s[i] >= 48 /\ s[i] <= 57 THEN DigitsEnd(s, i + 1) ELSE i

parse_scalar_at(s, i) ==
    LET Lit(word) == SubSeq(s, i, i + Len(word) - 1) = word
    IN  IF i > Len(s) THEN At(FALSE, JsonNull, i)
        ELSE IF s[i] = 34
        THEN LET j == StringEnd(s, i)
             IN  IF j = 0 THEN At(FALSE, JsonNull, i)
                 ELSE At(TRUE, JsonString(SubSeq(s, i + 1, j - 1)), j + 1)
        ELSE IF s[i] = 45 \/ (s[i] >= 48 /\ s[i] <= 57)
        THEN LET first == IF s[i] = 45 THEN i + 1 ELSE i
                 end == DigitsEnd(s, first)
                 digits == SubSeq(s, first, end - 1)
             IN  IF \/ digits = <<>>
                    \/ (Len(digits) > 1 /\ digits[1] = 48)
                    \/ Len(digits) > 9
                    \/ (end <= Len(s) /\ s[end] \in {46, 69, 101})
                 THEN At(FALSE, JsonNull, i)
                 ELSE At(TRUE,
                         JsonNumber(IF s[i] = 45 THEN 0 - DigitsValue(digits, 0)
                                    ELSE DigitsValue(digits, 0)),
                         end)
        ELSE IF Lit(<<116, 114, 117, 101>>) THEN At(TRUE, JsonBool(TRUE), i + 4)
        ELSE IF Lit(<<102, 97, 108, 115, 101>>) THEN At(TRUE, JsonBool(FALSE), i + 5)
        ELSE IF Lit(<<110, 117, 108, 108>>) THEN At(TRUE, JsonNull, i + 4)
        ELSE At(FALSE, JsonNull, i)

\* The members of an object from index i, which follows '{' or ','.
RECURSIVE parse_members_at(_, _, _)
parse_members_at(s, i, acc) ==
    LET key == IF i <= Len(s) /\ s[i] = 34
               THEN parse_scalar_at(s, i) ELSE At(FALSE, JsonNull, i)
        colon == key.next
        value == IF key.ok /\ colon <= Len(s) /\ s[colon] = 58
                 THEN parse_scalar_at(s, colon + 1) ELSE At(FALSE, JsonNull, i)
        after == value.next
        members == Append(acc, [key |-> key.v.s, value |-> value.v])
    IN  IF ~value.ok \/ after > Len(s) THEN At(FALSE, JsonNull, i)
        ELSE IF s[after] = 125 THEN At(TRUE, JsonObject(members), after + 1)
        ELSE IF s[after] = 44 THEN parse_members_at(s, after + 1, members)
        ELSE At(FALSE, JsonNull, i)

\* serde_json::from_str
serde_json_from_str(s) ==
    LET r == IF s # <<>> /\ s[1] = 123
             THEN IF Len(s) >= 2 /\ s[2] = 125 THEN At(TRUE, JsonObject(<<>>), 3)
                  ELSE parse_members_at(s, 2, <<>>)
             ELSE parse_scalar_at(s, 1)
    IN  IF r.ok /\ r.next = Len(s) + 1 THEN Ok(r.v) ELSE Err(JsonNull, "serde_json::Error")

\* json[key]: the member of an object under key (the last one written), Null
\* for a missing key and for a value that is no object.
JsonIndex(json, key) ==
    LET hits == {i \in DOMAIN json.members : json.members[i].key = key}
    IN  IF json.t = "Object" /\ hits # {}
        THEN json.members[CHOOSE i \in hits : \A j \in hits : j <= i].value
        ELSE JsonNull

\* Value::as_str().unwrap_or(default)
as_str_or(value, default) == IF value.t = "String" THEN value.s ELSE default

\* proxy.rs: the listen port field of ProxyModule::ui, changed to the text
\* port_str.
proxy_listen_port(self, port_str) == proxy_port_parsed(self, parse_u16(port_str))

----------------------------------------------------------------------------
(* utils.rs *)

\* Ipv4Addr::from_str: four decimal numbers of one to three digits, none
\* with a leading zero and none above 255, with '.' between them.
is_octet(s) ==
    /\ Len(s) \in 1 .. 3
    /\ \A i \in DOMAIN s : s[i] >= 48 /\ s[i] <= 57
    /\ Len(s) > 1 => s[1] # 48
    /\ DigitsValue(s, 0) <= 255

is_ipv4(s) ==
    /\ Len(split(s, 46)) = 4
    /\ \A i \in 1 .. 4 : is_octet(split(s, 46)[i])

\* Ipv6Addr::from_str, which the hosts given here meet with "::1" alone.
is_ipv6(s) == s = <<58, 58, 49>>

\* str::parse::<SocketAddr>(): an IPv4 address, ':' and a port, or an IPv6
\* address in brackets, ':' and a port.  A host name is no address.
parse_socket_addr(s) ==
    \/ /\ Len(split(s, 58)) = 2
       /\ is_ipv4(split(s, 58)[1])
       /\ parse_u16(split(s, 58)[2]).ok
       /\ split(s, 58)[2] # <<>> /\ split(s, 58)[2][1] # 43
    \/ \E i \in DOMAIN s :
         /\ s[1] = 91 /\ s[i] = 93
         /\ is_ipv6(SubSeq(s, 2, i - 1))
         /\ i + 1 <= Len(s) /\ s[i + 1] = 58
         /\ parse_u16(SubSeq(s, i + 2, Len(s))).ok
         /\ i + 2 <= Len(s) /\ s[i + 2] # 43

\* is_port_in_use: connects is whether TcpStream::connect_timeout to the
\* parsed address succeeds within its 100 ms.
is_port_in_use(host, port, connects) ==
    IF parse_socket_addr(host \o <<58>> \o to_string(port)) THEN connects ELSE FALSE

\* find_available_port: listening is the set of ports of host a connection
\* to which succeeds.  The range start_port..65535 ends before 65535.
RECURSIVE find_available_port(_, _, _)
find_available_port(host, start_port, listening) ==
    IF start_port >= 65535 THEN NoPort
    ELSE IF ~is_port_in_use(host, start_port, start_port \in listening) THEN start_port
    ELSE find_available_port(host, start_port + 1, listening)

----------------------------------------------------------------------------
(* vpn.rs *)

\* The string literals of vpn.rs, as bytes; the Chinese literals are written
\* in English.
\* "vmess://"
s_vmess_scheme == <<118, 109, 101, 115, 115, 58, 47, 47>>
\* "ss://"
s_ss_scheme == <<115, 115, 58, 47, 47>>
\* "trojan://"
s_trojan_scheme == <<116, 114, 111, 106, 97, 110, 58, 47, 47>>
\* "ps"
s_ps == <<112, 115>>
\* "add"
s_add == <<97, 100, 100>>
\* "port"
s_port == <<112, 111, 114, 116>>
\* "id"
s_id == <<105, 100>>
\* "scy"
s_scy == <<115, 99, 121>>
\* "imported Vmess"
s_imported_vmess ==
    <<105, 109, 112, 111, 114, 116, 101, 100, 32, 86, 109, 101, 115, 115>>
\* "imported Shadowsocks"
s_imported_shadowsocks ==
    <<105, 109, 112, 111, 114, 116, 101, 100, 32, 83, 104, 97, 100, 111, 119,
      115, 111, 99, 107, 115>>
\* "imported Trojan"
s_imported_trojan ==
    <<105, 109, 112, 111, 114, 116, 101, 100, 32, 84, 114, 111, 106, 97, 110>>
\* "unknown"
s_unknown == <<117, 110, 107, 110, 111, 119, 110>>
\* "443"
s_443 == <<52, 52, 51>>
\* ""
s_empty == <<>>
\* "auto"
s_auto == <<97, 117, 116, 111>>
\* "aes-256-gcm"
s_aes_256_gcm == <<97, 101, 115, 45, 50, 53, 54, 45, 103, 99, 109>>
\* "unnamed proxy"
s_unnamed_proxy ==
    <<117, 110, 110, 97, 109, 101, 100, 32, 112, 114, 111, 120, 121>>
\* "vmess"
s_vmess == <<118, 109, 101, 115, 115>>
\* "ss"
s_ss == <<115, 115>>
\* "shadowsocks"
s_shadowsocks == <<115, 104, 97, 100, 111, 119, 115, 111, 99, 107, 115>>
\* "trojan"
s_trojan == <<116, 114, 111, 106, 97, 110>>
\* "example Vmess"
s_example_vmess ==
    <<101, 120, 97, 109, 112, 108, 101, 32, 86, 109, 101, 115, 115>>
\* "example.com"
s_example_com == <<101, 120, 97, 109, 112, 108, 101, 46, 99, 111, 109>>
\* "a1b2c3d4-e5f6-g7h8-i9j0-k1l2m3n4o5p6"
s_example_uuid ==
    <<97, 49, 98, 50, 99, 51, 100, 52, 45, 101, 53, 102, 54, 45, 103, 55,
      104, 56, 45, 105, 57, 106, 48, 45, 107, 49, 108, 50, 109, 51, 110, 52,
      111, 53, 112, 54>>
\* "example Shadowsocks"
s_example_shadowsocks ==
    <<101, 120, 97, 109, 112, 108, 101, 32, 83, 104, 97, 100, 111, 119, 115,
      111, 99, 107, 115>>
\* "example.org"
s_example_org == <<101, 120, 97, 109, 112, 108, 101, 46, 111, 114, 103>>
\* "password123"
s_password123 == <<112, 97, 115, 115, 119, 111, 114, 100, 49, 50, 51>>

VpnConfig_new(id, name, protocol, server, port, uuid, encryption) ==
    [id |-> id, name |-> name, protocol |-> protocol, server |-> server,
     port |-> port, uuid |-> uuid, encryption |-> encryption, enabled |-> FALSE]

ClashSubscription_new(id, name, url) ==
    [id |-> id, name |-> name, url |-> url, last_updated |-> "never",
     configs |-> <<>>]

VpnModule_new ==
    [enabled |-> FALSE,
     configs |-> << VpnConfig_new(1, s_example_vmess, "Vmess", s_example_com, 443,
                                  s_example_uuid, s_auto),
                    VpnConfig_new(2, s_example_shadowsocks, "Shadowsocks",
                                  s_example_org, 8388, s_password123, s_aes_256_gcm) >>,
     subscriptions |-> <<>>,
     next_config_id |-> 3,
     next_subscription_id |-> 1,
     selected_config |-> NoId,
     selected_subscription |-> NoId,
     edit_mode |-> FALSE,
     connection_status |-> "Disabled"]

add_config(self, config) ==
    Result([self EXCEPT !.configs = Append(@, config), !.next_config_id = @ + 1],
           <<InfoFmt("VPN", "add config", config.name)>>, <<>>, FALSE)

remove_config(self, id) ==
    LET index == Position(self.configs, id)
    IN  IF index # 0
        THEN Result([self EXCEPT !.configs = RemoveAt(@, index),
                                 !.selected_config = IF @ = id THEN NoId ELSE @],
                    <<InfoFmt("VPN", "remove config", self.configs[index].name)>>,
                    <<>>, FALSE)
        ELSE Result(self, <<>>, <<>>, FALSE)

add_subscription(self, subscription) ==
    Result([self EXCEPT !.subscriptions = Append(@, subscription),
                        !.next_subscription_id = @ + 1],
           <<InfoFmt("VPN", "add subscription", subscription.name)>>, <<>>, FALSE)

remove_subscription(self, id) ==
    LET index == Position(self.subscriptions, id)
    IN  IF index # 0
        THEN Result([self EXCEPT !.subscriptions = RemoveAt(@, index),
                                 !.selected_subscription = IF @ = id THEN NoId ELSE @],
                    <<InfoFmt("VPN", "remove subscription",
                              self.subscriptions[index].name)>>,
                    <<>>, FALSE)
        ELSE Result(self, <<>>, <<>>, FALSE)

toggle_config(self, id) ==
    LET index == Position(self.configs, id)
    IN  IF index # 0
        THEN Result([self EXCEPT !.configs[index].enabled = ~@],
                    <<InfoFmt("VPN", IF self.configs[index].enabled
                                     THEN "config disabled" ELSE "config enabled",
                              self.configs[index].name)>>,
                    <<>>, FALSE)
        ELSE Result(self, <<>>, <<>>, FALSE)

\* toggle_vpn sets the status text and starts nothing.
toggle_vpn(self) ==
    LET new_enabled == ~self.enabled
        status1 == IF new_enabled THEN "Connecting" ELSE "Disabled"
    IN  Result([self EXCEPT !.enabled = new_enabled, !.connection_status = status1],
               <<Info("VPN", IF new_enabled THEN "VPN enabled" ELSE "VPN disabled")>>,
               <<self.connection_status, status1>>, FALSE)

\* VpnModule::ui: the tab row sets the selection to None ("VPN configs") or to
\* the id of a subscription it lists.
vpn_select_subscription(self, choice) ==
    Result([self EXCEPT !.selected_subscription = choice], <<>>, <<>>, FALSE)

\* VpnModule::ui: the "add subscription" button.
vpn_add_subscription_button(self) ==
    Result([self EXCEPT !.edit_mode = TRUE, !.selected_subscription = NoId],
           <<>>, <<>>, FALSE)

\* VpnModule::ui: the "add config" button.
vpn_add_config_button(self) ==
    Result([self EXCEPT !.edit_mode = TRUE], <<>>, <<>>, FALSE)

\* VpnModule::ui: what the form's confirm button does with a subscription form
\* holding name and url.
vpn_save_subscription(self, name, url) ==
    IF name # <<>> /\ url # <<>>
    THEN add_subscription(self, ClashSubscription_new(self.next_subscription_id,
                                                      name, url))
    ELSE Result(self, <<>>, <<>>, FALSE)

\* VpnModule::ui: what the form's confirm button does with a config form.
vpn_save_config(self, name, protocol, server, port, uuid, encryption) ==
    IF name # <<>> /\ server # <<>> /\ uuid # <<>>
    THEN LET r == add_config(self, VpnConfig_new(self.next_config_id, name, protocol,
                                                 server, port, uuid, encryption))
         IN  [r EXCEPT !.self.edit_mode = FALSE]
    ELSE Result(self, <<>>, <<>>, FALSE)

\* yaml_rust::Yaml scalars as YamlLoader hands them over; BadValue is what
\* indexing gives for a missing key.
YamlBad == [t |-> "BadValue", s |-> <<>>, n |-> 0]
YamlString(s) == [t |-> "String", s |-> s, n |-> 0]
YamlInteger(n) == [t |-> "Integer", s |-> <<>>, n |-> n]

\* Yaml::as_str().unwrap_or(default) and Yaml::as_i64().unwrap_or(default)
yaml_str_or(y, default) == IF y.t = "String" THEN y.s ELSE default
yaml_i64_or(y, default) == IF y.t = "Integer" THEN y.n ELSE default

\* A conversion that saturates at the ends of u16.
as_u16_saturating(n) == IF n < 0 THEN 0 ELSE IF n > 65535 THEN 65535 ELSE n

\* i64 as u16: the low 16 bits.
as_u16(n) == n % 65536

\* parse_clash_proxy: Some(config) is Ok, None is Err.
parse_clash_proxy(proxy, index) ==
    LET name_str == IF proxy.name.t = "String" THEN proxy.name.s
                    ELSE s_unnamed_proxy \o to_string(index)
        proxy_type == to_lowercase(yaml_str_or(proxy.type, s_unknown))
        server == yaml_str_or(proxy.server, s_unknown)
    IN  IF proxy_type = s_vmess
        THEN Ok(VpnConfig_new(0, name_str, "Vmess", server,
                              as_u16(yaml_i64_or(proxy.port, 443)),
                              yaml_str_or(proxy.uuid, s_empty),
                              yaml_str_or(proxy.cipher, s_auto)))
        ELSE IF proxy_type = s_ss \/ proxy_type = s_shadowsocks
        THEN Ok(VpnConfig_new(0, name_str, "Shadowsocks", server,
                              as_u16(yaml_i64_or(proxy.port, 8388)),
                              yaml_str_or(proxy.password, s_empty),
                              yaml_str_or(proxy.cipher, s_aes_256_gcm)))
        ELSE IF proxy_type = s_trojan
        THEN Ok(VpnConfig_new(0, name_str, "Trojan", server,
                              as_u16(yaml_i64_or(proxy.port, 443)),
                              yaml_str_or(proxy.password, s_empty),
                              s_auto))
        ELSE Err(None, "None")

\* The loop of download_and_parse_clash_config over proxies[i ..], i counted
\* from 0 as enumerate() does.
RECURSIVE parse_proxies(_, _)
parse_proxies(proxies, i) ==
    IF i >= Len(proxies) THEN <<>>
    ELSE LET config == parse_clash_proxy(proxies[i + 1], i)
         IN  (IF config.ok THEN <<config.v>> ELSE <<>>) \o parse_proxies(proxies, i + 1)

\* What the network and YamlLoader hand to download_and_parse_clash_config:
\* whether send() succeeded, the HTTP status, whether text() succeeded, whether
\* the text loaded as YAML, and the documents loaded.
Fetch(send_ok, status, text_ok, yaml_ok, docs) ==
    [send_ok |-> send_ok, status |-> status, text_ok |-> text_ok,
     yaml_ok |-> yaml_ok, docs |-> docs]

\* StatusCode::is_success
is_success(status) == status >= 200 /\ status <= 299

download_and_parse_clash_config(url, fetch) ==
    LET log1 == InfoFmt("VPN", "downloading Clash config", url)
        Failed(e) == [ok |-> FALSE, v |-> <<>>, e |-> e, logs |-> <<log1>>]
        proxies == fetch.docs[1].proxies
        configs == IF proxies.is_vec THEN parse_proxies(proxies.items, 0) ELSE <<>>
    IN  IF ~fetch.send_ok THEN Failed("download failed")
        ELSE IF ~is_success(fetch.status) THEN Failed("HTTP error")
        ELSE IF ~fetch.text_ok THEN Failed("reading the response failed")
        ELSE IF ~fetch.yaml_ok THEN Failed("YAML parse failed")
        ELSE IF fetch.docs = <<>> THEN Failed("YAML document empty")
        ELSE [ok |-> TRUE, v |-> configs, e |-> "None",
              logs |-> <<log1, InfoFmt("VPN", "parsed configs", Len(configs))>>]

\* update_subscription with the id cursor left where it is.
update_subscription_keep_cursor(self, id, fetch, now) ==
    LET index == Position(self.subscriptions, id)
        subscription == self.subscriptions[index]
        log1 == InfoFmt("VPN", "updating subscription", subscription.name)
        d == download_and_parse_clash_config(subscription.url, fetch)
        new_configs == [i \in DOMAIN d.v |->
                          [d.v[i] EXCEPT !.id = self.next_config_id + i - 1]]
    IN  IF index = 0 THEN Result(self, <<>>, <<>>, FALSE)
        ELSE IF d.ok
        THEN Result([self EXCEPT !.subscriptions[index].last_updated = now,
                                 !.subscriptions[index].configs = new_configs],
                    <<log1>> \o d.logs
                      \o <<InfoFmt("VPN", "subscription updated", Len(new_configs))>>,
                    <<>>, FALSE)
        ELSE Result(self, <<log1>> \o d.logs
                            \o <<ErrorFmt("VPN", "updating subscription failed", d.e)>>,
                    <<>>, FALSE)

\* update_subscription with last_updated written before the download.
update_subscription_stamp_first(self, id, fetch, now) ==
    LET index == Position(self.subscriptions, id)
        subscription == self.subscriptions[index]
        log1 == InfoFmt("VPN", "updating subscription", subscription.name)
        d == download_and_parse_clash_config(subscription.url, fetch)
        new_configs == [i \in DOMAIN d.v |->
                          [d.v[i] EXCEPT !.id = self.next_config_id + i - 1]]
        stamped == [self EXCEPT !.subscriptions[index].last_updated = now]
    IN  IF index = 0 THEN Result(self, <<>>, <<>>, FALSE)
        ELSE IF d.ok
        THEN Result([stamped EXCEPT !.subscriptions[index].configs = new_configs,
                                    !.next_config_id = @ + Len(new_configs)],
                    <<log1>> \o d.logs
                      \o <<InfoFmt("VPN", "subscription updated", Len(new_configs))>>,
                    <<>>, FALSE)
        ELSE Result(stamped, <<log1>> \o d.logs
                               \o <<ErrorFmt("VPN", "updating subscription failed", d.e)>>,
                    <<>>, FALSE)

\* update_subscription with the configs numbered from 1 in every refresh.
update_subscription_ids_from_one(self, id, fetch, now) ==
    LET index == Position(self.subscriptions, id)
        subscription == self.subscriptions[index]
        log1 == InfoFmt("VPN", "updating subscription", subscription.name)
        d == download_and_parse_clash_config(subscription.url, fetch)
        new_configs == [i \in DOMAIN d.v |-> [d.v[i] EXCEPT !.id = i]]
    IN  IF index = 0 THEN Result(self, <<>>, <<>>, FALSE)
        ELSE IF d.ok
        THEN Result([self EXCEPT !.subscriptions[index].last_updated = now,
                                 !.subscriptions[index].configs = new_configs,
                                 !.next_config_id = @ + Len(new_configs)],
                    <<log1>> \o d.logs
                      \o <<InfoFmt("VPN", "subscription updated", Len(new_configs))>>,
                    <<>>, FALSE)
        ELSE Result(self, <<log1>> \o d.logs
                            \o <<ErrorFmt("VPN", "updating subscription failed", d.e)>>,
                    <<>>, FALSE)

\* update_subscription: fetch is what the download meets, now the formatted
\* local time.
update_subscription(self, id, fetch, now) ==
    LET index == Position(self.subscriptions, id)
        subscription == self.subscriptions[index]
        log1 == InfoFmt("VPN", "updating subscription", subscription.name)
        d == download_and_parse_clash_config(subscription.url, fetch)
        new_configs == [i \in DOMAIN d.v |->
                          [d.v[i] EXCEPT !.id = self.next_config_id + i - 1]]
    IN  IF index = 0 THEN Result(self, <<>>, <<>>, FALSE)
        ELSE IF d.ok
        THEN Result([self EXCEPT !.subscriptions[index].last_updated = now,
                                 !.subscriptions[index].configs = new_configs,
                                 !.next_config_id = @ + Len(new_configs)],
                    <<log1>> \o d.logs
                      \o <<InfoFmt("VPN", "subscription updated", Len(new_configs))>>,
                    <<>>, FALSE)
        ELSE Result(self, <<log1>> \o d.logs
                            \o <<ErrorFmt("VPN", "updating subscription failed", d.e)>>,
                    <<>>, FALSE)

\* The end of parse_vmess_url with a missing "ps" refused.
vmess_config_require_ps(json) ==
    LET ps == JsonIndex(json.v, s_ps)
        parsed == parse_u16(as_str_or(JsonIndex(json.v, s_port), s_443))
    IN  IF ~json.ok THEN Err(None, "JSON parse failed")
        ELSE IF ps.t # "String" THEN Err(None, "no ps")
        ELSE Ok(VpnConfig_new(0, ps.s, "Vmess",
                              as_str_or(JsonIndex(json.v, s_add), s_unknown),
                              IF parsed.ok THEN parsed.v ELSE 443,
                              as_str_or(JsonIndex(json.v, s_id), s_empty),
                              as_str_or(JsonIndex(json.v, s_scy), s_auto)))

\* parse_vmess_url from the Result of serde_json::from_str on: an Err is
\* returned, and of an Ok the fields are read, each with its default, and the
\* VpnConfig is built from them under the provisional id 0.
vmess_config(json) ==
    LET parsed == parse_u16(as_str_or(JsonIndex(json.v, s_port), s_443))
    IN  IF ~json.ok THEN Err(None, "JSON parse failed")
        ELSE Ok(VpnConfig_new(0, as_str_or(JsonIndex(json.v, s_ps), s_imported_vmess),
                              "Vmess",
                              as_str_or(JsonIndex(json.v, s_add), s_unknown),
                              IF parsed.ok THEN parsed.v ELSE 443,
                              as_str_or(JsonIndex(json.v, s_id), s_empty),
                              as_str_or(JsonIndex(json.v, s_scy), s_auto)))

\* parse_vmess_url from the Result of String::from_utf8 on.
vmess_json_str(json_str) ==
    IF ~json_str.ok THEN Err(None, "UTF-8 decode failed")
    ELSE vmess_config(serde_json_from_str(json_str.v))

\* parse_vmess_url from the Result of the base64 decode on.
vmess_decoded(decoded) ==
    IF ~decoded.ok THEN Err(None, "Base64 decode failed")
    ELSE vmess_json_str(from_utf8(decoded.v))

parse_vmess_url(vmess_url) ==
    IF ~starts_with(vmess_url, s_vmess_scheme) THEN Err(None, "not a Vmess URL")
    ELSE vmess_decoded(base64_decode(From(vmess_url, 8)))

\* The block parse_shadowsocks_url runs on the plain body and again on the
\* decoded one: method:password@server:port, cut at the first '@' and at the
\* first ':' of each side.
ss_method_password_server_port(text, tag) ==
    LET at_pos == find(text, 64)
        method_pass == SubSeq(text, 1, at_pos - 1)
        server_port == From(text, at_pos)
        colon1 == find(method_pass, 58)
        colon2 == find(server_port, 58)
        port == parse_u16(From(server_port, colon2))
    IN  IF at_pos # 0 /\ colon1 # 0 /\ colon2 # 0 /\ port.ok
        THEN Ok(VpnConfig_new(0, tag, "Shadowsocks",
                              SubSeq(server_port, 1, colon2 - 1), port.v,
                              From(method_pass, colon1),
                              SubSeq(method_pass, 1, colon1 - 1)))
        ELSE Err(None, "None")

\* vpn.rs has two definitions of parse_shadowsocks_url in one impl block; this
\* is the one at line 412.
parse_shadowsocks_url_412(ss_url) ==
    LET parts == split(From(ss_url, 5), 35)
        main_part == parts[1]
        tag == IF Len(parts) > 1 THEN parts[2] ELSE s_imported_shadowsocks
        decoded == base64_decode(main_part)
        decoded_str == from_utf8(decoded.v)
        plain == ss_method_password_server_port(main_part, tag)
        inner == ss_method_password_server_port(decoded_str.v, tag)
    IN  IF ~starts_with(ss_url, s_ss_scheme) THEN Err(None, "not a Shadowsocks URL")
        ELSE IF ~decoded.ok
        THEN IF plain.ok THEN plain ELSE Err(None, "cannot parse Shadowsocks URL")
        ELSE IF ~decoded_str.ok THEN Err(None, "UTF-8 decode failed")
        ELSE IF inner.ok THEN inner
        ELSE Err(None, "cannot parse Shadowsocks URL format")

\* The definition of parse_shadowsocks_url at line 548.
parse_shadowsocks_url_548(url) ==
    LET decoded == base64_decode(remove_all(url, s_ss_scheme))
        text == from_utf8(decoded.v)
        parts == splitn2(text.v, 64)
        method_password == splitn2(parts[1], 58)
        server_port == splitn2(parts[2], 58)
        port == parse_u16(server_port[2])
    IN  IF ~decoded.ok THEN Err(None, "Base64 decode failed")
        ELSE IF ~text.ok THEN Err(None, "UTF-8 decode failed")
        ELSE IF Len(parts) # 2 THEN Err(None, "invalid Shadowsocks format")
        ELSE IF Len(method_password) # 2 THEN Err(None, "invalid method format")
        ELSE IF Len(server_port) # 2 THEN Err(None, "invalid server address format")
        ELSE Ok(VpnConfig_new(0, s_imported_shadowsocks, "Shadowsocks",
                              server_port[1], IF port.ok THEN port.v ELSE 8388,
                              method_password[2], method_password[1]))

\* vpn.rs has two definitions of parse_trojan_url as well; this is the one at
\* line 502.
parse_trojan_url_502(trojan_url) ==
    LET parts == split(From(trojan_url, 9), 35)
        main_part == parts[1]
        tag == IF Len(parts) > 1 THEN parts[2] ELSE s_imported_trojan
        at_pos == find(main_part, 64)
        password == SubSeq(main_part, 1, at_pos - 1)
        server_port_params == From(main_part, at_pos)
        q_pos == find(server_port_params, 63)
        server_port == IF q_pos # 0 THEN SubSeq(server_port_params, 1, q_pos - 1)
                       ELSE server_port_params
        colon_pos == find(server_port, 58)
        port == parse_u16(From(server_port, colon_pos))
    IN  IF ~starts_with(trojan_url, s_trojan_scheme) THEN Err(None, "not a Trojan URL")
        ELSE IF at_pos # 0 /\ colon_pos # 0 /\ port.ok
        THEN Ok(VpnConfig_new(0, tag, "Trojan", SubSeq(server_port, 1, colon_pos - 1),
                              port.v, password, s_auto))
        ELSE Err(None, "cannot parse Trojan URL format")

\* The definition of parse_trojan_url at line 583.
parse_trojan_url_583(url) ==
    LET uri == remove_all(url, s_trojan_scheme)
        parts == splitn2(uri, 64)
        password_server == splitn2(parts[1], 58)
        server_port == splitn2(password_server[2], 58)
        port == parse_u16(server_port[2])
    IN  IF Len(parts) # 2 THEN Err(None, "invalid Trojan format")
        ELSE IF Len(password_server) # 2 THEN Err(None, "invalid password format")
        ELSE IF Len(server_port) # 2 THEN Err(None, "invalid server address format")
        ELSE Ok(VpnConfig_new(0, s_imported_trojan, "Trojan", server_port[1],
                              IF port.ok THEN port.v ELSE 443,
                              password_server[1], s_auto))

\* The two definitions of one name do not build; which of the two a repaired
\* build keeps is open, so each call may meet either.
Definitions == {"first", "second"}

\* The match on the decoder's Result with the id cursor advanced in both arms.
import_parsed_count_first(self, parse_result) ==
    LET config == parse_result.v
        config_with_id == VpnConfig_new(self.next_config_id, config.name,
                                        config.protocol, config.server, config.port,
                                        config.uuid, config.encryption)
    IN  IF parse_result.ok
        THEN Result([self EXCEPT !.next_config_id = @ + 1,
                                 !.configs = Append(@, config_with_id)],
                    <<InfoFmt("VPN", "add config", config_with_id.name)>>,
                    <<>>, FALSE)
        ELSE Returning(Result([self EXCEPT !.next_config_id = @ + 1], <<>>, <<>>, FALSE),
                       parse_result.e)

\* The match on the decoder's Result, which every branch of import_vpn_url
\* repeats: Ok takes the next id, logs and pushes the config, Err is returned
\* as it is.
import_parsed(self, parse_result) ==
    LET config == parse_result.v
        config_with_id == VpnConfig_new(self.next_config_id, config.name,
                                        config.protocol, config.server, config.port,
                                        config.uuid, config.encryption)
    IN  IF parse_result.ok
        THEN Result([self EXCEPT !.next_config_id = @ + 1,
                                 !.configs = Append(@, config_with_id)],
                    <<InfoFmt("VPN", "add config", config_with_id.name)>>,
                    <<>>, FALSE)
        ELSE Unchanged(self, parse_result.e)

\* import_vpn_url, with the definitions of the two duplicated decoders that
\* are in force.
import_vpn_url(self, url_str, ss_def, trojan_def) ==
    IF starts_with(url_str, s_vmess_scheme)
    THEN import_parsed(self, parse_vmess_url(url_str))
    ELSE IF starts_with(url_str, s_ss_scheme)
    THEN import_parsed(self, IF ss_def = "first" THEN parse_shadowsocks_url_412(url_str)
                             ELSE parse_shadowsocks_url_548(url_str))
    ELSE IF starts_with(url_str, s_trojan_scheme)
    THEN import_parsed(self, IF trojan_def = "first" THEN parse_trojan_url_502(url_str)
                             ELSE parse_trojan_url_583(url_str))
    ELSE Unchanged(self, "unsupported URL format")

----------------------------------------------------------------------------
(* app.rs: InviZibleApp::new builds the logger and the modules in this     *)
(* order; every constructor logs one "initialised" record.  app.rs mounts  *)
(* no VpnModule: the model builds one on the same logger and gives it a    *)
(* view of its own, "Vpn", whose handlers are the methods of VpnModule.    *)

Tabs == {"Tor", "DnsCrypt", "I2P", "Firewall", "Proxy", "Logs", "Settings", "Vpn"}

InitRecords ==
    << Info("Tor", "initialised"), Info("DNSCrypt", "initialised"),
       Info("I2P", "initialised"), Info("Firewall", "initialised"),
       Info("Proxy", "initialised"), Info("VPN", "initialised") >>

\* The ids the constructors' add_example_* calls gave out.
InitAllocated ==
    [bridges |-> Ids(TorModule_new.bridges),
     servers |-> Ids(DnsCryptModule_new.servers),
     tunnels |-> Ids(I2PModule_new.tunnels),
     rules |-> Ids(FirewallModule_new.rules),
     configs |-> Ids(VpnModule_new.configs),
     subscriptions |-> Ids(VpnModule_new.subscriptions)]

Init ==
    /\ current_tab = "Tor"
    /\ logger = LogAll(Logger_new, InitRecords)
    /\ tor_module = TorModule_new
    /\ dnscrypt_module = DnsCryptModule_new
    /\ i2p_module = I2PModule_new
    /\ firewall_module = FirewallModule_new
    /\ proxy_module = ProxyModule_new
    /\ vpn_module = VpnModule_new
    /\ panicked = FALSE
    /\ last = NoCall
    /\ prev = Earlier(NoCall)
    /\ sent = <<>>
    /\ allocated = InitAllocated
    /\ mutex = None
    /\ appending = NotAppending
    /\ tor_children = NoChildren
    /\ port_checked = <<>>
    /\ frame = NoFrame

ModuleOf(m) ==
    CASE m = "tor" -> tor_module
      [] m = "dnscrypt" -> dnscrypt_module
      [] m = "i2p" -> i2p_module
      [] m = "firewall" -> firewall_module
      [] m = "proxy" -> proxy_module
      [] m = "vpn" -> vpn_module

\* self of manager m after a call; the other managers are not touched.
\* The same with the proxy's capability flag of an upstream service following
\* that service's enabled flag.
SetModule_sync_capability(m, self) ==
    /\ tor_module' = IF m = "tor" THEN self ELSE tor_module
    /\ dnscrypt_module' = IF m = "dnscrypt" THEN self ELSE dnscrypt_module
    /\ i2p_module' = IF m = "i2p" THEN self ELSE i2p_module
    /\ firewall_module' = IF m = "firewall" THEN self ELSE firewall_module
    /\ proxy_module' =
         CASE m = "proxy" -> self
           [] m = "tor" ->
                [proxy_module EXCEPT !.config.tor_enabled = self.enabled]
           [] m = "dnscrypt" ->
                [proxy_module EXCEPT !.config.dnscrypt_enabled = self.enabled]
           [] m = "i2p" ->
                [proxy_module EXCEPT !.config.i2p_enabled = self.enabled]
           [] OTHER -> proxy_module
    /\ vpn_module' = IF m = "vpn" THEN self ELSE vpn_module

\* Each manager is a field of its own in InviZibleApp and a handler is given
\* only its own manager.
SetModule(m, self) ==
    /\ tor_module' = IF m = "tor" THEN self ELSE tor_module
    /\ dnscrypt_module' = IF m = "dnscrypt" THEN self ELSE dnscrypt_module
    /\ i2p_module' = IF m = "i2p" THEN self ELSE i2p_module
    /\ firewall_module' = IF m = "firewall" THEN self ELSE firewall_module
    /\ proxy_module' = IF m = "proxy" THEN self ELSE proxy_module
    /\ vpn_module' = IF m = "vpn" THEN self ELSE vpn_module

\* What a handler call leaves behind.
\* The listen address and port of a ProxyModule.
Listen(self) == <<self.config.listen_address, self.config.listen_port>>

\* check_port_conflict logs "checking port" when it runs; a handler that
\* changes the address or the port does so before anything else.
AfterCheck(checked, before, r) ==
    IF \E i \in DOMAIN r.logs : r.logs[i].message[1] = "checking port"
    THEN Listen(r.self)
    ELSE IF Listen(r.self) # Listen(before) THEN <<>>
    ELSE checked

Done(mgr, op, arg, r) ==
    /\ SetModule(mgr, r.self)
    /\ logger' = LogAll(logger, r.logs)
    /\ panicked' = r.panic
    /\ prev' = Earlier(last)
    /\ last' = Call(mgr, op, arg, ModuleOf(mgr), r)
    /\ tor_children' = AfterProcess(tor_children, r.process)
    /\ port_checked' = IF mgr = "proxy"
                       THEN AfterCheck(port_checked, proxy_module, r)
                       ELSE port_checked
    /\ UNCHANGED <<current_tab, sent, mutex, appending, frame>>

\* A handler of the view tab can run: the view is shown and the GUI thread
\* is alive.
Shown(tab) == current_tab = tab /\ ~panicked

\* A handler call that gives out no id.
Handle(mgr, op, arg, r) ==
    /\ Done(mgr, op, arg, r)
    /\ UNCHANGED allocated

\* The ids of the entities a call appended to a collection.
Appended(before, after) == Ids(SubSeq(after, Len(before) + 1, Len(after)))

\* A handler call that may give out ids of collection: ids are the ids it
\* gave out.  A collection is given at most MaxAdds ids after construction,
\* but for the last call, which may give out several.
HandleAlloc(mgr, op, arg, r, collection, ids) ==
    /\ ids # <<>> => Len(allocated[collection]) < Len(InitAllocated[collection]) + MaxAdds
    /\ Done(mgr, op, arg, r)
    /\ allocated' = [allocated EXCEPT ![collection] = @ \o ids]

\* tab_button
TabButton ==
    /\ ~panicked
    /\ \E tab \in Tabs : current_tab' = tab
    /\ UNCHANGED <<logger, tor_module, dnscrypt_module, i2p_module, firewall_module,
                   proxy_module, vpn_module, panicked, last, prev, sent, allocated,
                   mutex, appending, tor_children, port_checked, frame>>

ToggleTor ==
    /\ Shown("Tor")
    /\ \E spawn_ok \in BOOLEAN, connect_ok \in BOOLEAN :
         Handle("tor", "toggle", [spawn_ok |-> spawn_ok, connect_ok |-> connect_ok],
                toggle_tor(tor_module, spawn_ok, connect_ok))

\* The child TorModule spawned last ends by itself.
TorChildExits ==
    /\ ~panicked
    /\ tor_children.newest = "running"
    /\ tor_children' = [tor_children EXCEPT !.newest = "exited"]
    /\ UNCHANGED <<current_tab, logger, tor_module, dnscrypt_module, i2p_module,
                   firewall_module, proxy_module, vpn_module, panicked, last, prev,
                   sent, allocated, mutex, appending, port_checked, frame>>

ToggleDnscrypt ==
    /\ Shown("DnsCrypt")
    /\ Handle("dnscrypt", "toggle", None, toggle_dnscrypt(dnscrypt_module))

ToggleI2p ==
    /\ Shown("I2P")
    /\ Handle("i2p", "toggle", None, toggle_i2p(i2p_module))

ToggleFirewall ==
    /\ Shown("Firewall")
    /\ Handle("firewall", "toggle", None, toggle_firewall(firewall_module))

\* in_use is whether something listens on the listen address and port when
\* the button is pressed; the handler does not look.
ToggleProxy ==
    /\ Shown("Proxy")
    /\ \E in_use \in BOOLEAN :
         Handle("proxy", "toggle", [in_use |-> in_use], proxy_button(proxy_module))

ToggleVpn ==
    /\ Shown("Vpn")
    /\ Handle("vpn", "toggle", None, toggle_vpn(vpn_module))

Next ==
    \/ TabButton
    \/ ToggleTor
    \/ TorChildExits
    \/ ToggleDnscrypt
    \/ ToggleI2p
    \/ ToggleFirewall
    \/ ToggleProxy
    \/ ToggleVpn

Spec == Init /\ [][Next]_vars

----------------------------------------------------------------------------
(* The forwarding proxy's view: a session in the Proxy view of the          *)
(* constructed program.  Where a handler starts the proxy, in_use is        *)
(* whether something listens on the address and port it starts on.         *)

\* What the listen port field is changed to: "8080", "8081", "70000", "80a"
\* and the empty text.
PortTexts ==
    {<<56, 48, 56, 48>>, <<56, 48, 56, 49>>, <<55, 48, 48, 48, 48>>,
     <<56, 48, 97>>, <<>>}

\* What the listen address field is changed to.
Addresses == {"127.0.0.1", "0.0.0.0"}

Capabilities == {"tor_enabled", "dnscrypt_enabled", "i2p_enabled"}

InitProxy ==
    /\ current_tab = "Proxy"
    /\ logger = LogAll(Logger_new, InitRecords)
    /\ tor_module = TorModule_new
    /\ dnscrypt_module = DnsCryptModule_new
    /\ i2p_module = I2PModule_new
    /\ firewall_module = FirewallModule_new
    /\ proxy_module = ProxyModule_new
    /\ vpn_module = VpnModule_new
    /\ panicked = FALSE
    /\ last = NoCall
    /\ prev = Earlier(NoCall)
    /\ sent = <<>>
    /\ allocated = InitAllocated
    /\ mutex = None
    /\ appending = NotAppending
    /\ tor_children = NoChildren
    /\ port_checked = <<>>
    /\ frame = NoFrame

ProxyToggleProtocol ==
    /\ Shown("Proxy")
    /\ \E in_use \in BOOLEAN :
         Handle("proxy", "toggle_protocol", [in_use |-> in_use],
                toggle_protocol(proxy_module))

ProxyListenAddress ==
    /\ Shown("Proxy")
    /\ \E listen_address \in Addresses \ {proxy_module.config.listen_address},
          in_use \in BOOLEAN :
         Handle("proxy", "listen_address",
                [text |-> listen_address, in_use |-> in_use],
                proxy_listen_address(proxy_module, listen_address))

ProxyListenPort ==
    /\ Shown("Proxy")
    /\ \E port_str \in PortTexts \ {to_string(proxy_module.config.listen_port)},
          in_use \in BOOLEAN :
         Handle("proxy", "listen_port", [text |-> port_str, in_use |-> in_use],
                proxy_listen_port(proxy_module, port_str))

ProxyCheckPort ==
    /\ Shown("Proxy")
    /\ \E in_use \in BOOLEAN :
         Handle("proxy", "check_port", [in_use |-> in_use],
                check_port_conflict(proxy_module))

ProxyCheckbox ==
    /\ Shown("Proxy")
    /\ \E flag \in Capabilities :
         Handle("proxy", "capability", flag, proxy_checkbox(proxy_module, flag))

ProxyCopyButton ==
    /\ Shown("Proxy")
    /\ proxy_module.config.enabled
    /\ Handle("proxy", "copy", None, proxy_copy_button(proxy_module))

NextProxy ==
    \/ ToggleProxy
    \/ ProxyToggleProtocol
    \/ ProxyListenAddress
    \/ ProxyListenPort
    \/ ProxyCheckPort
    \/ ProxyCheckbox
    \/ ProxyCopyButton

SpecProxy == InitProxy /\ [][NextProxy]_vars

\* The capability flags next to the services they name: a session over the
\* views of the proxy and of the three upstream services.
NextCapability ==
    \/ TabButton
    \/ ToggleTor
    \/ ToggleDnscrypt
    \/ ToggleI2p
    \/ ToggleProxy
    \/ ProxyCheckbox

SpecCapability == Init /\ [][NextCapability]_vars

----------------------------------------------------------------------------
(* The port arbiter of utils.rs on its own: is_port_in_use and             *)
(* find_available_port are called with hosts and ports of the sets below,  *)
(* in an environment in which any set of the ports may be listened on.     *)

\* "127.0.0.1", "localhost" and "::1"
Hosts ==
    {<<49, 50, 55, 46, 48, 46, 48, 46, 49>>,
     <<108, 111, 99, 97, 108, 104, 111, 115, 116>>,
     <<58, 58, 49>>}

\* The ports probed: the proxy's default port and the top of the u16 range.
ProbePorts == {1080, 65533, 65534, 65535}

InitArbiter == InitProxy

\* A call of a function of utils.rs that returned ret.
Utility(op, arg, ret) ==
    /\ last' = [NoCall EXCEPT !.mgr = "utils", !.op = op, !.arg = arg, !.ret = ret]
    /\ prev' = Earlier(last)
    /\ UNCHANGED <<current_tab, logger, tor_module, dnscrypt_module, i2p_module,
                   firewall_module, proxy_module, vpn_module, panicked, sent,
                   allocated, mutex, appending, tor_children, port_checked, frame>>

IsPortInUse ==
    \E host \in Hosts, port \in ProbePorts, connects \in BOOLEAN :
        Utility("is_port_in_use",
                [host |-> host, port |-> port, connects |-> connects],
                is_port_in_use(host, port, connects))

FindAvailablePort ==
    \E host \in Hosts, start_port \in ProbePorts, listening \in SUBSET ProbePorts :
        Utility("find_available_port",
                [host |-> host, start_port |-> start_port, listening |-> listening],
                find_available_port(host, start_port, listening))

NextArbiter ==
    \/ IsPortInUse
    \/ FindAvailablePort

SpecArbiter == InitArbiter /\ [][NextArbiter]_vars

----------------------------------------------------------------------------
(* The Logger on its own: a Logger as Logger::new() builds it, of a         *)
(* capacity from 1 to MaxCapacity, followed by log and clear calls; log is *)
(* called until the capacity is exceeded by one record.                    *)

LogModules == {"Tor", "Proxy"}

LogTexts == {"m1", "m2"}

InitLogger ==
    /\ current_tab = "Tor"
    /\ \E capacity \in 1 .. MaxCapacity :
         logger = [Logger_new EXCEPT !.max_logs = capacity]
    /\ tor_module = TorModule_new
    /\ dnscrypt_module = DnsCryptModule_new
    /\ i2p_module = I2PModule_new
    /\ firewall_module = FirewallModule_new
    /\ proxy_module = ProxyModule_new
    /\ vpn_module = VpnModule_new
    /\ panicked = FALSE
    /\ last = NoCall
    /\ prev = Earlier(NoCall)
    /\ sent = <<>>
    /\ allocated = InitAllocated
    /\ mutex = None
    /\ appending = NotAppending
    /\ tor_children = NoChildren
    /\ port_checked = <<>>
    /\ frame = NoFrame

\* A call on the Logger alone: the call and the one before it are recorded.
LoggerCall(op, emitted) ==
    /\ last' = [NoCall EXCEPT !.mgr = "logger", !.op = op,
                              !.emitted = emitted]
    /\ prev' = Earlier(last)
    /\ UNCHANGED <<current_tab, tor_module, dnscrypt_module, i2p_module,
                   firewall_module, proxy_module, vpn_module, panicked,
                   allocated, mutex, appending, tor_children, port_checked, frame>>

LoggerLog ==
    /\ Len(sent) <= logger.max_logs
    /\ \E level \in LogLevel, module \in LogModules, text \in LogTexts :
         /\ logger' = Logger_log(logger, level, module, <<text>>)
         /\ sent' = Append(sent, LogEntry(level, module, <<text>>))
         /\ LoggerCall("log", <<LogEntry(level, module, <<text>>)>>)

\* Logger::clear; the call records in `emitted` the records it found.
LoggerClear ==
    /\ logger' = Logger_clear(logger)
    /\ sent' = <<>>
    /\ LoggerCall("clear", logger.logs)

\* The clear button of Logger::ui: as_mutex() is None, so no method is called.
LoggerClearButton ==
    /\ UNCHANGED <<logger, sent>>
    /\ LoggerCall("clear_button", <<>>)

NextLogger ==
    \/ LoggerLog
    \/ LoggerClear
    \/ LoggerClearButton

SpecLogger == InitLogger /\ [][NextLogger]_vars

----------------------------------------------------------------------------
(* The shared Logger under managers that log from threads of their own:    *)
(* each follows `self.logger.lock()`, Logger::log and the drop of the guard  *)
(* one step at a time, in any interleaving.  A manager numbers its records. *)
InitBus == InitLogger

BusFrame ==
    UNCHANGED <<current_tab, tor_module, dnscrypt_module, i2p_module,
                firewall_module, proxy_module, vpn_module, panicked, last, prev,
                allocated, tor_children, port_checked, frame>>

\* The same without waiting for the lock to be free.
BusLock_no_wait(m) ==
    /\ appending[m].pc = "idle"
    /\ appending[m].done < MaxAppends
    /\ mutex' = m
    /\ appending' = [appending EXCEPT
                       ![m].pc = "locked",
                       ![m].entry = Info(ModuleName(m), appending[m].done + 1)]
    /\ UNCHANGED <<logger, sent>>
    /\ BusFrame

\* self.logger.lock() returns the guard
BusLock(m) ==
    /\ mutex = None
    /\ appending[m].pc = "idle"
    /\ appending[m].done < MaxAppends
    /\ mutex' = m
    /\ appending' = [appending EXCEPT
                       ![m].pc = "locked",
                       ![m].entry = Info(ModuleName(m), appending[m].done + 1)]
    /\ UNCHANGED <<logger, sent>>
    /\ BusFrame

\* Logger::log: self.logs.push_back(entry)
BusPush(m) ==
    /\ appending[m].pc = "locked"
    /\ logger' = Logger_push_back(logger, appending[m].entry)
    /\ sent' = Append(sent, appending[m].entry)
    /\ appending' = [appending EXCEPT ![m].pc = "pushed"]
    /\ UNCHANGED mutex
    /\ BusFrame

\* Logger::log: the length test and pop_front
BusTrim(m) ==
    /\ appending[m].pc = "pushed"
    /\ logger' = Logger_trim(logger)
    /\ appending' = [appending EXCEPT ![m].pc = "trimmed"]
    /\ UNCHANGED <<mutex, sent>>
    /\ BusFrame

\* the guard is dropped at the end of the if let block
BusUnlock(m) ==
    /\ appending[m].pc = "trimmed"
    /\ mutex' = None
    /\ appending' = [appending EXCEPT ![m].pc = "idle", ![m].done = @ + 1]
    /\ UNCHANGED <<logger, sent>>
    /\ BusFrame

NextBus ==
    \E m \in Appenders :
       \/ BusLock(m)
       \/ BusPush(m)
       \/ BusTrim(m)
       \/ BusUnlock(m)

SpecBus == InitBus /\ [][NextBus]_vars

----------------------------------------------------------------------------
(* The GUI thread and the logger's mutex.  update() runs the handler of the *)
(* view shown; a handler locks the mutex once for each record it logs and   *)
(* drops the guard at the end of that `if let` block; the Logs view holds   *)
(* the guard while Logger::ui runs.  std's Mutex is not reentrant: a thread *)
(* that locks it while holding the guard never returns from lock().         *)

\* Logger::as_mutex handing out the mutex the logger lives in.
Logger_as_mutex_shared == "Some"

\* Logger::as_mutex: the placeholder hands out no mutex.
Logger_as_mutex == None

FrameKeeps ==
    UNCHANGED <<current_tab, panicked, sent, allocated, appending, tor_children,
                port_checked>>

\* A handler's state changes are made; its records are still to be logged.
FrameCall(mgr, op, r) ==
    /\ frame.pc = "idle"
    /\ SetModule(mgr, r.self)
    /\ last' = Call(mgr, op, None, ModuleOf(mgr), r)
    /\ prev' = Earlier(last)
    /\ frame' = [pc |-> IF r.logs = <<>> THEN "idle" ELSE "call", pending |-> r.logs]
    /\ UNCHANGED <<logger, mutex>>
    /\ FrameKeeps

FrameCheckPort ==
    /\ Shown("Proxy")
    /\ FrameCall("proxy", "check_port", check_port_conflict(proxy_module))

FrameToggleProxy ==
    /\ Shown("Proxy")
    /\ FrameCall("proxy", "toggle", proxy_button(proxy_module))

FrameToggleDnscrypt ==
    /\ Shown("DnsCrypt")
    /\ FrameCall("dnscrypt", "toggle", toggle_dnscrypt(dnscrypt_module))

FrameModules ==
    UNCHANGED <<tor_module, dnscrypt_module, i2p_module, firewall_module,
                proxy_module, vpn_module, last, prev>>

\* self.logger.lock() in a handler: it returns the guard, or never returns
\* when this thread holds the guard already.
FrameLock ==
    /\ frame.pc = "call"
    /\ IF mutex = None
       THEN /\ mutex' = "gui"
            /\ frame' = [frame EXCEPT !.pc = "locked"]
       ELSE /\ mutex' = mutex
            /\ frame' = [frame EXCEPT !.pc = "deadlocked"]
    /\ UNCHANGED logger
    /\ FrameModules
    /\ FrameKeeps

\* logger.info(..) and its like under the guard
FrameLog ==
    /\ frame.pc = "locked"
    /\ logger' = LogAll(logger, <<Head(frame.pending)>>)
    /\ frame' = [pc |-> "logged", pending |-> Tail(frame.pending)]
    /\ UNCHANGED mutex
    /\ FrameModules
    /\ FrameKeeps

\* the guard is dropped at the end of the if let block
FrameUnlock ==
    /\ frame.pc = "logged"
    /\ mutex' = None
    /\ frame' = [frame EXCEPT !.pc = IF frame.pending = <<>> THEN "idle" ELSE "call"]
    /\ UNCHANGED logger
    /\ FrameModules
    /\ FrameKeeps

\* render_current_tab, Tab::Logs: self.logger.lock() before logger.ui(ui)
LogsLock ==
    /\ Shown("Logs")
    /\ frame.pc = "idle"
    /\ IF mutex = None
       THEN /\ mutex' = "gui"
            /\ frame' = [frame EXCEPT !.pc = "viewing"]
       ELSE /\ mutex' = mutex
            /\ frame' = [frame EXCEPT !.pc = "deadlocked"]
    /\ UNCHANGED logger
    /\ FrameModules
    /\ FrameKeeps

\* Logger::ui: the clear button is clicked.  With a mutex from as_mutex() the
\* button locks it and calls clear(); with None it does nothing.
LogsClearButton ==
    /\ frame.pc = "viewing"
    /\ last' = [NoCall EXCEPT !.mgr = "logger", !.op = "clear_button"]
    /\ prev' = Earlier(last)
    /\ IF Logger_as_mutex = None
       THEN UNCHANGED <<logger, mutex, frame>>
       ELSE IF mutex = None
       THEN /\ logger' = Logger_clear(logger)
            /\ UNCHANGED <<mutex, frame>>
       ELSE /\ frame' = [frame EXCEPT !.pc = "deadlocked"]
            /\ UNCHANGED <<logger, mutex>>
    /\ UNCHANGED <<tor_module, dnscrypt_module, i2p_module, firewall_module,
                   proxy_module, vpn_module>>
    /\ FrameKeeps

\* the guard of the Logs view is dropped when logger.ui(ui) has returned
LogsUnlock ==
    /\ frame.pc = "viewing"
    /\ mutex' = None
    /\ frame' = NoFrame
    /\ UNCHANGED logger
    /\ FrameModules
    /\ FrameKeeps

\* The view is changed between two handlers.
FrameTab ==
    /\ frame.pc = "idle"
    /\ TabButton

NextFrame ==
    \/ FrameTab
    \/ FrameCheckPort
    \/ FrameToggleProxy
    \/ FrameToggleDnscrypt
    \/ FrameLock
    \/ FrameLog
    \/ FrameUnlock
    \/ LogsLock
    \/ LogsClearButton
    \/ LogsUnlock

SpecFrame == Init /\ [][NextFrame]_vars

----------------------------------------------------------------------------
(* The entity collections.  A session works in one view: the managers share *)
(* nothing but the logger, and InitEntities is the constructed program with *)
(* the view chosen.  The list buttons hand the methods the id of a listed   *)
(* entity; remove and toggle are explored with ids of no entity too.        *)

EntityTabs == {"Tor", "DnsCrypt", "I2P", "Firewall", "Vpn"}

\* What the text fields of the forms hold.
Texts == {"", "x"}

BridgeTypes == {"Obfs4"}

TunnelTypes == {"Client"}

TunnelPorts == {0, 4444}

RuleTypes == {"Application", "Port", "Address"}

\* The ids remove is explored with: every id a collection can have given out.
IdRange(collection) == 1 .. Len(InitAllocated[collection]) + MaxAdds

\* The id toggle is explored with: the first entity's, listed or removed.
ToggleIds == {1}

InitEntities ==
    /\ current_tab \in EntityTabs
    /\ logger = LogAll(Logger_new, InitRecords)
    /\ tor_module = TorModule_new
    /\ dnscrypt_module = DnsCryptModule_new
    /\ i2p_module = I2PModule_new
    /\ firewall_module = FirewallModule_new
    /\ proxy_module = ProxyModule_new
    /\ vpn_module = VpnModule_new
    /\ panicked = FALSE
    /\ last = NoCall
    /\ prev = Earlier(NoCall)
    /\ sent = <<>>
    /\ allocated = InitAllocated
    /\ mutex = None
    /\ appending = NotAppending
    /\ tor_children = NoChildren
    /\ port_checked = <<>>
    /\ frame = NoFrame

TorAddButton ==
    /\ Shown("Tor")
    /\ Handle("tor", "add_button", None, tor_add_button(tor_module))

TorSelect ==
    /\ Shown("Tor")
    /\ \E id \in IdSet(tor_module.bridges) :
         Handle("tor", "select", id, tor_select(tor_module, id))

TorEditButton ==
    /\ Shown("Tor")
    /\ \E id \in IdSet(tor_module.bridges) :
         Handle("tor", "edit_button", id, tor_edit_button(tor_module, id))

TorCancel ==
    /\ Shown("Tor")
    /\ tor_module.edit_mode
    /\ Handle("tor", "cancel", None, tor_cancel(tor_module))

TorSave ==
    /\ Shown("Tor")
    /\ tor_module.edit_mode
    /\ \E name \in Texts, bridge_type \in BridgeTypes, address \in Texts :
         LET r == tor_save(tor_module, name, bridge_type, address)
         IN  HandleAlloc("tor", "save", <<name, bridge_type, address>>, r, "bridges",
                         Appended(tor_module.bridges, r.self.bridges))

RemoveBridge ==
    /\ Shown("Tor")
    /\ \E id \in IdRange("bridges") :
         Handle("tor", "remove", id, remove_bridge(tor_module, id))

ToggleBridge ==
    /\ Shown("Tor")
    /\ \E id \in ToggleIds :
         Handle("tor", "toggle_entity", id, toggle_bridge(tor_module, id))

DnscryptAddButton ==
    /\ Shown("DnsCrypt")
    /\ Handle("dnscrypt", "add_button", None, dnscrypt_add_button(dnscrypt_module))

DnscryptSelect ==
    /\ Shown("DnsCrypt")
    /\ \E id \in IdSet(dnscrypt_module.servers) :
         Handle("dnscrypt", "select", id, dnscrypt_select(dnscrypt_module, id))

DnscryptEditButton ==
    /\ Shown("DnsCrypt")
    /\ \E id \in IdSet(dnscrypt_module.servers) :
         Handle("dnscrypt", "edit_button", id, dnscrypt_edit_button(dnscrypt_module, id))

DnscryptCancel ==
    /\ Shown("DnsCrypt")
    /\ dnscrypt_module.edit_mode
    /\ Handle("dnscrypt", "cancel", None, dnscrypt_cancel(dnscrypt_module))

DnscryptSave ==
    /\ Shown("DnsCrypt")
    /\ dnscrypt_module.edit_mode
    /\ \E name \in Texts, address \in Texts, provider_name \in Texts :
         LET r == dnscrypt_save(dnscrypt_module, name, address, provider_name)
         IN  HandleAlloc("dnscrypt", "save", <<name, address, provider_name>>, r, "servers",
                         Appended(dnscrypt_module.servers, r.self.servers))

RemoveServer ==
    /\ Shown("DnsCrypt")
    /\ \E id \in IdRange("servers") :
         Handle("dnscrypt", "remove", id, remove_server(dnscrypt_module, id))

ToggleServer ==
    /\ Shown("DnsCrypt")
    /\ \E id \in ToggleIds :
         Handle("dnscrypt", "toggle_entity", id, toggle_server(dnscrypt_module, id))

I2pAddButton ==
    /\ Shown("I2P")
    /\ Handle("i2p", "add_button", None, i2p_add_button(i2p_module))

I2pSelect ==
    /\ Shown("I2P")
    /\ \E id \in IdSet(i2p_module.tunnels) :
         Handle("i2p", "select", id, i2p_select(i2p_module, id))

I2pEditButton ==
    /\ Shown("I2P")
    /\ \E id \in IdSet(i2p_module.tunnels) :
         Handle("i2p", "edit_button", id, i2p_edit_button(i2p_module, id))

I2pCancel ==
    /\ Shown("I2P")
    /\ i2p_module.edit_mode
    /\ Handle("i2p", "cancel", None, i2p_cancel(i2p_module))

I2pSave ==
    /\ Shown("I2P")
    /\ i2p_module.edit_mode
    /\ \E name \in Texts, tunnel_type \in TunnelTypes, local_port \in TunnelPorts,
            destination \in Texts :
         LET r == i2p_save(i2p_module, name, tunnel_type, local_port, destination)
         IN  HandleAlloc("i2p", "save", <<name, tunnel_type, destination>>, r, "tunnels",
                         Appended(i2p_module.tunnels, r.self.tunnels))

RemoveTunnel ==
    /\ Shown("I2P")
    /\ \E id \in IdRange("tunnels") :
         Handle("i2p", "remove", id, remove_tunnel(i2p_module, id))

I2pCheckbox ==
    /\ Shown("I2P")
    /\ \E id \in ToggleIds :
         Handle("i2p", "toggle_entity", id, i2p_checkbox(i2p_module, id))

FirewallAddButton ==
    /\ Shown("Firewall")
    /\ Handle("firewall", "add_button", None, firewall_add_button(firewall_module))

FirewallSelect ==
    /\ Shown("Firewall")
    /\ \E id \in IdSet(firewall_module.rules) :
         Handle("firewall", "select", id, firewall_select(firewall_module, id))

FirewallEditButton ==
    /\ Shown("Firewall")
    /\ \E id \in IdSet(firewall_module.rules) :
         Handle("firewall", "edit_button", id, firewall_edit_button(firewall_module, id))

FirewallCancel ==
    /\ Shown("Firewall")
    /\ firewall_module.edit_mode
    /\ Handle("firewall", "cancel", None, firewall_cancel(firewall_module))

FirewallSave ==
    /\ Shown("Firewall")
    /\ firewall_module.edit_mode
    /\ \E name \in Texts, rule_type \in RuleTypes :
         LET r == firewall_save(firewall_module, name, rule_type)
         IN  HandleAlloc("firewall", "save", <<name, rule_type>>, r, "rules",
                         Appended(firewall_module.rules, r.self.rules))

RemoveRule ==
    /\ Shown("Firewall")
    /\ \E id \in IdRange("rules") :
         Handle("firewall", "remove", id, remove_rule(firewall_module, id))

ToggleRule ==
    /\ Shown("Firewall")
    /\ \E id \in ToggleIds :
         Handle("firewall", "toggle_entity", id, toggle_rule(firewall_module, id))

\* The URLs import_vpn_url is given.
\* "vmess://eyJwcyI6IlgiLCJhZGQiOiJoIiwicG9ydCI6IjEiLCJpZCI6InUiLCJzY3kiOiJhdXRvIn0="
\* (vmess:// of base64 of {"ps":"X","add":"h","port":"1","id":"u","scy":"auto"})
url_vmess_full ==
    <<118, 109, 101, 115, 115, 58, 47, 47, 101, 121, 74, 119, 99, 121, 73,
      54, 73, 108, 103, 105, 76, 67, 74, 104, 90, 71, 81, 105, 79, 105, 74,
      111, 73, 105, 119, 105, 99, 71, 57, 121, 100, 67, 73, 54, 73, 106, 69,
      105, 76, 67, 74, 112, 90, 67, 73, 54, 73, 110, 85, 105, 76, 67, 74,
      122, 89, 51, 107, 105, 79, 105, 74, 104, 100, 88, 82, 118, 73, 110, 48,
      61>>
\* "vmess://eyJhZGQiOiJoIiwicG9ydCI6IjEiLCJpZCI6InUiLCJzY3kiOiJhdXRvIn0="
\* (the same with "ps" left out)
url_vmess_no_ps ==
    <<118, 109, 101, 115, 115, 58, 47, 47, 101, 121, 74, 104, 90, 71, 81,
      105, 79, 105, 74, 111, 73, 105, 119, 105, 99, 71, 57, 121, 100, 67, 73,
      54, 73, 106, 69, 105, 76, 67, 74, 112, 90, 67, 73, 54, 73, 110, 85,
      105, 76, 67, 74, 122, 89, 51, 107, 105, 79, 105, 74, 104, 100, 88, 82,
      118, 73, 110, 48, 61>>
\* "vmess://eyJwcyI6IlkiLCJhZGQiOiJoMiIsInBvcnQiOiI4NDQzIiwiaWQiOiJ1MiJ9"
\* (vmess:// of base64 of {"ps":"Y","add":"h2","port":"8443","id":"u2"})
url_vmess_no_scy ==
    <<118, 109, 101, 115, 115, 58, 47, 47, 101, 121, 74, 119, 99, 121, 73,
      54, 73, 108, 107, 105, 76, 67, 74, 104, 90, 71, 81, 105, 79, 105, 74,
      111, 77, 105, 73, 115, 73, 110, 66, 118, 99, 110, 81, 105, 79, 105, 73,
      52, 78, 68, 81, 122, 73, 105, 119, 105, 97, 87, 81, 105, 79, 105, 74,
      49, 77, 105, 74, 57>>
\* "vmess://eyJwcyI6IlAiLCJhZGQiOiJoIiwicG9ydCI6Ijk5OTk5IiwiaWQiOiJ1In0="
\* (vmess:// of base64 of {"ps":"P","add":"h","port":"99999","id":"u"})
url_vmess_port_99999 ==
    <<118, 109, 101, 115, 115, 58, 47, 47, 101, 121, 74, 119, 99, 121, 73,
      54, 73, 108, 65, 105, 76, 67, 74, 104, 90, 71, 81, 105, 79, 105, 74,
      111, 73, 105, 119, 105, 99, 71, 57, 121, 100, 67, 73, 54, 73, 106, 107,
      53, 79, 84, 107, 53, 73, 105, 119, 105, 97, 87, 81, 105, 79, 105, 74,
      49, 73, 110, 48, 61>>
\* "vmess://eyJhZGQiOiJoIiwicG9ydCI6ODA4MCwiaWQiOiJ1In0="
\* (vmess:// of base64 of {"add":"h","port":8080,"id":"u"})
url_vmess_port_number ==
    <<118, 109, 101, 115, 115, 58, 47, 47, 101, 121, 74, 104, 90, 71, 81,
      105, 79, 105, 74, 111, 73, 105, 119, 105, 99, 71, 57, 121, 100, 67, 73,
      54, 79, 68, 65, 52, 77, 67, 119, 105, 97, 87, 81, 105, 79, 105, 74, 49,
      73, 110, 48, 61>>
\* "vmess://eyJwcyI6IloifQ=="
\* (vmess:// of base64 of {"ps":"Z"})
url_vmess_only_ps ==
    <<118, 109, 101, 115, 115, 58, 47, 47, 101, 121, 74, 119, 99, 121, 73,
      54, 73, 108, 111, 105, 102, 81, 61, 61>>
\* "vmess://!!!"
url_vmess_not_base64 == <<118, 109, 101, 115, 115, 58, 47, 47, 33, 33, 33>>
\* "vmess:////4="
\* (vmess:// of base64 of the bytes FF FE)
url_vmess_not_utf8 == <<118, 109, 101, 115, 115, 58, 47, 47, 47, 47, 52, 61>>
\* "vmess://e25vdCBqc29u"
\* (vmess:// of base64 of {not json)
url_vmess_not_json ==
    <<118, 109, 101, 115, 115, 58, 47, 47, 101, 50, 53, 118, 100, 67, 66,
      113, 99, 50, 57, 117>>
\* "ss://YWVzLTI1Ni1nY206cHdAaDo4Mzg4#tag"
\* (ss:// of base64 of aes-256-gcm:pw@h:8388, then #tag)
url_ss_base64_tag ==
    <<115, 115, 58, 47, 47, 89, 87, 86, 122, 76, 84, 73, 49, 78, 105, 49,
      110, 89, 50, 48, 54, 99, 72, 100, 65, 97, 68, 111, 52, 77, 122, 103,
      52, 35, 116, 97, 103>>
\* "ss://YWVzLTI1Ni1nY206cHdAaDo4Mzg4"
\* (ss:// of base64 of aes-256-gcm:pw@h:8388)
url_ss_base64 ==
    <<115, 115, 58, 47, 47, 89, 87, 86, 122, 76, 84, 73, 49, 78, 105, 49,
      110, 89, 50, 48, 54, 99, 72, 100, 65, 97, 68, 111, 52, 77, 122, 103,
      52>>
\* "ss://aes-256-gcm:pw@h:8388#tag"
url_ss_plain_tag ==
    <<115, 115, 58, 47, 47, 97, 101, 115, 45, 50, 53, 54, 45, 103, 99, 109,
      58, 112, 119, 64, 104, 58, 56, 51, 56, 56, 35, 116, 97, 103>>
\* "ss://not-a-valid-uri"
url_ss_not_a_valid_uri ==
    <<115, 115, 58, 47, 47, 110, 111, 116, 45, 97, 45, 118, 97, 108, 105,
      100, 45, 117, 114, 105>>
\* "ss://m:p@h:port"
url_ss_plain_bad_port ==
    <<115, 115, 58, 47, 47, 109, 58, 112, 64, 104, 58, 112, 111, 114, 116>>
\* "ss://bm90aGluZw=="
\* (ss:// of base64 of nothing)
url_ss_base64_no_at ==
    <<115, 115, 58, 47, 47, 98, 109, 57, 48, 97, 71, 108, 117, 90, 119, 61,
      61>>
\* "ss://bTpwQGg6eA=="
\* (ss:// of base64 of m:p@h:x)
url_ss_base64_bad_port ==
    <<115, 115, 58, 47, 47, 98, 84, 112, 119, 81, 71, 103, 54, 101, 65, 61,
      61>>
\* "trojan://pw@h:443?allowInsecure=1#tag"
url_trojan_full ==
    <<116, 114, 111, 106, 97, 110, 58, 47, 47, 112, 119, 64, 104, 58, 52, 52,
      51, 63, 97, 108, 108, 111, 119, 73, 110, 115, 101, 99, 117, 114, 101,
      61, 49, 35, 116, 97, 103>>
\* "trojan://pw@h:443"
url_trojan_bare ==
    <<116, 114, 111, 106, 97, 110, 58, 47, 47, 112, 119, 64, 104, 58, 52, 52,
      51>>
\* "trojan://pw-no-at"
url_trojan_no_at ==
    <<116, 114, 111, 106, 97, 110, 58, 47, 47, 112, 119, 45, 110, 111, 45,
      97, 116>>
\* "trojan://pw@h"
url_trojan_no_port ==
    <<116, 114, 111, 106, 97, 110, 58, 47, 47, 112, 119, 64, 104>>
\* "trojan://pw@h:x"
url_trojan_bad_port ==
    <<116, 114, 111, 106, 97, 110, 58, 47, 47, 112, 119, 64, 104, 58, 120>>
\* "trojan://pw:h:443@rest"
url_trojan_colons_first ==
    <<116, 114, 111, 106, 97, 110, 58, 47, 47, 112, 119, 58, 104, 58, 52, 52,
      51, 64, 114, 101, 115, 116>>
\* "not-a-valid-uri"
url_not_a_valid_uri ==
    <<110, 111, 116, 45, 97, 45, 118, 97, 108, 105, 100, 45, 117, 114, 105>>
\* "http://example.com"
url_http ==
    <<104, 116, 116, 112, 58, 47, 47, 101, 120, 97, 109, 112, 108, 101, 46,
      99, 111, 109>>
\* ""
url_empty == <<>>

Urls ==
    {url_vmess_full, url_vmess_no_ps, url_vmess_no_scy,
     url_vmess_port_99999, url_vmess_port_number, url_vmess_only_ps,
     url_vmess_not_base64, url_vmess_not_utf8, url_vmess_not_json,
     url_ss_base64_tag, url_ss_base64, url_ss_plain_tag,
     url_ss_not_a_valid_uri, url_ss_plain_bad_port, url_ss_base64_no_at,
     url_ss_base64_bad_port, url_trojan_full, url_trojan_bare,
     url_trojan_no_at, url_trojan_no_port, url_trojan_bad_port,
     url_trojan_colons_first, url_not_a_valid_uri, url_http,
     url_empty}

\* What the text fields of the VPN forms hold.
ByteTexts == {<<>>, <<120>>}

\* Entries of a subscription's proxies list.
Proxy(name, type, server, port, uuid, cipher, password) ==
    [name |-> name, type |-> type, server |-> server, port |-> port,
     uuid |-> uuid, cipher |-> cipher, password |-> password]

\* - {name: A, type: vmess, server: h, port: 443, uuid: u}
proxy_vmess_A ==
    Proxy(YamlString(<<65>>), YamlString(s_vmess), YamlString(<<104>>),
          YamlInteger(443), YamlString(<<117>>), YamlBad, YamlBad)

\* - {name: B, type: SS, server: h, port: 70000, password: p}
proxy_ss_port_70000 ==
    Proxy(YamlString(<<66>>), YamlString(<<83, 83>>), YamlString(<<104>>),
          YamlInteger(70000), YamlBad, YamlBad, YamlString(<<112>>))

\* - {name: C, type: http, server: h, port: 80}
proxy_http ==
    Proxy(YamlString(<<67>>), YamlString(<<104, 116, 116, 112>>), YamlString(<<104>>),
          YamlInteger(80), YamlBad, YamlBad, YamlBad)

\* - {type: trojan, port: "443", password: p}
proxy_trojan_bare ==
    Proxy(YamlBad, YamlString(s_trojan), YamlBad, YamlString(s_443), YamlBad,
          YamlBad, YamlString(<<112>>))

\* - {name: D, type: vmess, server: h, port: -1, uuid: u}
proxy_vmess_port_negative ==
    Proxy(YamlString(<<68>>), YamlString(s_vmess), YamlString(<<104>>),
          YamlInteger(-1), YamlString(<<117>>), YamlBad, YamlBad)

\* - {name: E, type: vmess, server: h, port: "8443", uuid: u}
proxy_vmess_port_text ==
    Proxy(YamlString(<<69>>), YamlString(s_vmess), YamlString(<<104>>),
          YamlString(<<56, 52, 52, 51>>), YamlString(<<117>>), YamlBad, YamlBad)

\* - {name: F, type: ss, server: h, password: p}
proxy_ss_no_port ==
    Proxy(YamlString(<<70>>), YamlString(s_ss), YamlString(<<104>>),
          YamlBad, YamlBad, YamlBad, YamlString(<<112>>))

\* - {name: G, type: trojan, server: h, port: 65536, password: p}
proxy_trojan_port_65536 ==
    Proxy(YamlString(<<71>>), YamlString(s_trojan), YamlString(<<104>>),
          YamlInteger(65536), YamlBad, YamlBad, YamlString(<<112>>))

\* - {name: H, type: trojan, server: h, password: p}
proxy_trojan_no_port ==
    Proxy(YamlString(<<72>>), YamlString(s_trojan), YamlString(<<104>>),
          YamlBad, YamlBad, YamlBad, YamlString(<<112>>))

\* A YAML document: its proxies key is a list or is not.
Doc(is_vec, items) == [proxies |-> [is_vec |-> is_vec, items |-> items]]

\* What a refresh can meet: a transport error, a 404, an unreadable body, text
\* that is no YAML, no document, a document without proxies, and documents
\* with one, with three and with five entries.
Fetches ==
    { Fetch(FALSE, 0, FALSE, FALSE, <<>>),
      Fetch(TRUE, 404, FALSE, FALSE, <<>>),
      Fetch(TRUE, 200, FALSE, FALSE, <<>>),
      Fetch(TRUE, 200, TRUE, FALSE, <<>>),
      Fetch(TRUE, 200, TRUE, TRUE, <<>>),
      Fetch(TRUE, 200, TRUE, TRUE, <<Doc(FALSE, <<>>)>>),
      Fetch(TRUE, 200, TRUE, TRUE, <<Doc(TRUE, <<proxy_vmess_A>>)>>),
      Fetch(TRUE, 200, TRUE, TRUE,
            <<Doc(TRUE, <<proxy_ss_port_70000, proxy_http, proxy_trojan_bare>>)>>),
      Fetch(TRUE, 200, TRUE, TRUE,
            <<Doc(TRUE, <<proxy_vmess_port_negative, proxy_vmess_port_text,
                          proxy_ss_no_port, proxy_trojan_port_65536,
                          proxy_trojan_no_port>>)>>) }

\* chrono::Local::now(), formatted.
Now == "2026-01-01 00:00:00"

VpnSelectSubscription ==
    /\ Shown("Vpn")
    /\ \E choice \in {NoId} \cup IdSet(vpn_module.subscriptions) :
         Handle("vpn", "select_subscription", choice,
                vpn_select_subscription(vpn_module, choice))

VpnAddSubscriptionButton ==
    /\ Shown("Vpn")
    /\ Handle("vpn", "add_button", None, vpn_add_subscription_button(vpn_module))

VpnAddConfigButton ==
    /\ Shown("Vpn")
    /\ Handle("vpn", "add_button", None, vpn_add_config_button(vpn_module))

VpnSaveSubscription ==
    /\ Shown("Vpn")
    /\ \E name \in ByteTexts, url \in ByteTexts :
         LET r == vpn_save_subscription(vpn_module, name, url)
         IN  HandleAlloc("vpn", "save_subscription", <<name, url>>, r, "subscriptions",
                         Appended(vpn_module.subscriptions, r.self.subscriptions))

VpnSaveConfig ==
    /\ Shown("Vpn")
    /\ \E name \in ByteTexts, server \in ByteTexts, uuid \in ByteTexts :
         LET r == vpn_save_config(vpn_module, name, "Vmess", server, 443, uuid, s_auto)
         IN  HandleAlloc("vpn", "save", <<name, server, uuid>>, r, "configs",
                         Appended(vpn_module.configs, r.self.configs))

RemoveConfig ==
    /\ Shown("Vpn")
    /\ \E id \in IdRange("configs") :
         Handle("vpn", "remove", id, remove_config(vpn_module, id))

RemoveSubscription ==
    /\ Shown("Vpn")
    /\ \E id \in IdRange("subscriptions") :
         Handle("vpn", "remove_subscription", id, remove_subscription(vpn_module, id))

ToggleConfig ==
    /\ Shown("Vpn")
    /\ \E id \in ToggleIds :
         Handle("vpn", "toggle_entity", id, toggle_config(vpn_module, id))

\* Whether the download of a refresh succeeds.
Fetched(fetch) == download_and_parse_clash_config(<<>>, fetch).ok

UpdateSubscription ==
    /\ Shown("Vpn")
    /\ \E id \in IdRange("subscriptions"), fetch \in Fetches :
         LET r == update_subscription(vpn_module, id, fetch, Now)
             index == Position(vpn_module.subscriptions, id)
         IN  HandleAlloc("vpn", "update_subscription", [id |-> id, fetch |-> fetch], r,
                         "configs",
                         IF index # 0 /\ Fetched(fetch)
                         THEN Ids(r.self.subscriptions[index].configs) ELSE <<>>)

\* A call resolves parse_shadowsocks_url and parse_trojan_url to the first or
\* to the second of their definitions; a link reaches one of the two decoders
\* at most.  A session imports up to MaxImports links with success.
\* What a call of import_vpn_url that returned r leaves behind.
Imported(arg, r) ==
    LET ids == Appended(vpn_module.configs, r.self.configs)
    IN  /\ ids # <<>> => Len(allocated.configs) < Len(InitAllocated.configs) + MaxImports
        /\ HandleAlloc("vpn", "import_vpn_url", arg, r, "configs", ids)

ImportVpnUrl ==
    /\ Shown("Vpn")
    /\ \E url_str \in Urls, def \in Definitions :
         Imported([url |-> url_str, def |-> def],
                  import_vpn_url(vpn_module, url_str, def, def))

NextEntities ==
    \/ TorAddButton
    \/ TorSelect
    \/ TorEditButton
    \/ TorCancel
    \/ TorSave
    \/ RemoveBridge
    \/ ToggleBridge
    \/ DnscryptAddButton
    \/ DnscryptSelect
    \/ DnscryptEditButton
    \/ DnscryptCancel
    \/ DnscryptSave
    \/ RemoveServer
    \/ ToggleServer
    \/ I2pAddButton
    \/ I2pSelect
    \/ I2pEditButton
    \/ I2pCancel
    \/ I2pSave
    \/ RemoveTunnel
    \/ I2pCheckbox
    \/ FirewallAddButton
    \/ FirewallSelect
    \/ FirewallEditButton
    \/ FirewallCancel
    \/ FirewallSave
    \/ RemoveRule
    \/ ToggleRule
    \/ VpnSelectSubscription
    \/ VpnAddSubscriptionButton
    \/ VpnAddConfigButton
    \/ VpnSaveSubscription
    \/ VpnSaveConfig
    \/ RemoveConfig
    \/ RemoveSubscription
    \/ ToggleConfig

SpecEntities == InitEntities /\ [][NextEntities]_vars

----------------------------------------------------------------------------
(* The forms and the listen port field: a session in one of the views with *)
(* a form or in the Proxy view, where requests are checked before they act. *)

InitValidation ==
    /\ current_tab \in EntityTabs \cup {"Proxy"}
    /\ logger = LogAll(Logger_new, InitRecords)
    /\ tor_module = TorModule_new
    /\ dnscrypt_module = DnsCryptModule_new
    /\ i2p_module = I2PModule_new
    /\ firewall_module = FirewallModule_new
    /\ proxy_module = ProxyModule_new
    /\ vpn_module = VpnModule_new
    /\ panicked = FALSE
    /\ last = NoCall
    /\ prev = Earlier(NoCall)
    /\ sent = <<>>
    /\ allocated = InitAllocated
    /\ mutex = None
    /\ appending = NotAppending
    /\ tor_children = NoChildren
    /\ port_checked = <<>>
    /\ frame = NoFrame

NextValidation ==
    \/ TorAddButton
    \/ TorSave
    \/ DnscryptAddButton
    \/ DnscryptSave
    \/ I2pAddButton
    \/ I2pSave
    \/ FirewallAddButton
    \/ FirewallSave
    \/ VpnAddSubscriptionButton
    \/ VpnAddConfigButton
    \/ VpnSaveSubscription
    \/ VpnSaveConfig
    \/ ToggleProxy
    \/ ProxyListenPort

SpecValidation == InitValidation /\ [][NextValidation]_vars

----------------------------------------------------------------------------
(* Subscriptions and their refresh, on a VpnModule of its own. *)

InitVpn ==
    /\ InitEntities
    /\ current_tab = "Vpn"

NextRefresh ==
    \/ VpnSaveSubscription
    \/ UpdateSubscription
    \/ RemoveSubscription

SpecRefresh == InitVpn /\ [][NextRefresh]_vars

----------------------------------------------------------------------------
(* The import of share links, on a VpnModule of its own. *)

NextImport ==
    \/ ImportVpnUrl
    \/ RemoveConfig

SpecImport == InitVpn /\ [][NextImport]_vars

----------------------------------------------------------------------------
(* The VPN profiles of one session: configs saved, imported and removed by *)
(* hand next to subscriptions saved, refreshed and removed.                 *)

\* The links imported next to the saves and the refreshes: one that gives a
\* config and one that is refused.
ProfileUrls == {url_vmess_full, url_not_a_valid_uri}

\* What a refresh meets here: a 404, and the document with three entries.
ProfileFetches ==
    { Fetch(TRUE, 404, FALSE, FALSE, <<>>),
      Fetch(TRUE, 200, TRUE, TRUE,
            <<Doc(TRUE, <<proxy_ss_port_70000, proxy_http, proxy_trojan_bare>>)>>) }

UpdateProfiles ==
    /\ Shown("Vpn")
    /\ \E id \in IdRange("subscriptions"), fetch \in ProfileFetches :
         LET r == update_subscription(vpn_module, id, fetch, Now)
             index == Position(vpn_module.subscriptions, id)
         IN  HandleAlloc("vpn", "update_subscription", [id |-> id, fetch |-> fetch], r,
                         "configs",
                         IF index # 0 /\ Fetched(fetch)
                         THEN Ids(r.self.subscriptions[index].configs) ELSE <<>>)

ImportProfileUrl ==
    /\ Shown("Vpn")
    /\ \E url_str \in ProfileUrls :
         Imported([url |-> url_str, def |-> "first"],
                  import_vpn_url(vpn_module, url_str, "first", "first"))

NextProfiles ==
    \/ VpnSaveConfig
    \/ RemoveConfig
    \/ ImportProfileUrl
    \/ VpnSaveSubscription
    \/ UpdateProfiles
    \/ RemoveSubscription

SpecProfiles == InitVpn /\ [][NextProfiles]_vars

----------------------------------------------------------------------------
(* Reading the managers. *)

Managers == {"tor", "dnscrypt", "i2p", "firewall", "proxy", "vpn"}

EnabledOf(m) == EnabledIn(m, ModuleOf(m))

\* The displayed status text; the firewall has none.
StatusOf(m) == StatusIn(m, ModuleOf(m))

\* The service state a status text stands for.
ServiceState(status) ==
    CASE status = "Stopped" -> "Disabled"
      [] status = "Running" -> "Connected"
      [] OTHER -> status

Stateful == Managers \ {"firewall"}

----------------------------------------------------------------------------
(* Claims about the service state machines, checked under Spec. *)

Edges(m) ==
    {<<"Disabled", "Connecting">>, <<"Connecting", "Connected">>,
     <<"Connected", "Disabled">>, <<"Connecting", "Failed">>,
     <<"Failed", "Disabled">>}
    \cup (IF m = "proxy"
          THEN {<<"Connecting", "PortConflict">>, <<"PortConflict", "Disabled">>}
          ELSE {})

\* C2: every manager starts in Disabled, and every change of its state during
\* a handler call is one of the edges Disabled->Connecting,
\* Connecting->Connected, Connected->Disabled, Connecting->Failed,
\* Failed->Disabled and, for the proxy, Connecting->PortConflict->Disabled.
C2_OnlyListedEdges ==
    /\ last.op = None => \A m \in Stateful : ServiceState(StatusOf(m)) = "Disabled"
    /\ \A i \in 1 .. Len(last.path) - 1 :
         last.path[i] # last.path[i + 1]
           => <<ServiceState(last.path[i]), ServiceState(last.path[i + 1])>>
                \in Edges(last.mgr)

\* C3: when a toggle that enables a service has returned, the service state
\* is Connected or Failed, never still Connecting.
C3_EnableResolves ==
    (/\ last.op = "toggle"
     /\ last.mgr \in Stateful
     /\ ~last.enabled
     /\ ~panicked)
      => ServiceState(StatusOf(last.mgr)) \in {"Connected", "Failed"}

\* C4: two consecutive toggles of one manager restore its enabled flag and its
\* service state and append exactly two records to the logger.
C4_ToggleTwiceRestores ==
    (/\ prev.op = "toggle"
     /\ last.op = "toggle"
     /\ prev.mgr = last.mgr
     /\ ~panicked)
      => /\ EnabledOf(last.mgr) = prev.enabled
         /\ StatusOf(last.mgr) = prev.status
         /\ Len(prev.emitted) + Len(last.emitted) = 2

\* The original form of C15: the toggle that follows a failed connect
\* retries the connect.
C15_ToggleRetries ==
    (/\ last.op = "toggle"
     /\ last.mgr \in Stateful
     /\ last.status = "Failed")
      => \E i \in DOMAIN last.path : last.path[i] = "Connecting"

\* C15: a failed connect is never retried automatically: a service in Failed
\* stays as it is until it is toggled; that toggle makes no connect attempt
\* and resets the service to Disabled, and the toggle after it retries the
\* connect.
C15_FailedUntilToggled ==
    [][\A m \in Stateful :
         /\ (StatusOf(m) = "Failed" /\ ModuleOf(m)' # ModuleOf(m))
              => /\ last'.mgr = m
                 /\ last'.op = "toggle"
                 /\ last'.path = <<"Failed", "Disabled">>
                 /\ StatusOf(m)' = "Disabled"
                 /\ ~EnabledOf(m)'
         /\ (/\ prev'.op = "toggle" /\ prev'.mgr = m /\ prev'.status = "Failed"
             /\ last'.op = "toggle" /\ last'.mgr = m)
              => /\ last'.status = "Disabled"
                 /\ Len(last'.path) >= 2
                 /\ last'.path[2] = "Connecting"]_vars

\* A service was toggled out of Failed and toggled again, and the second
\* toggle tried the connect.
C15_Witness ==
    /\ prev.op = "toggle"
    /\ prev.status = "Failed"
    /\ last.op = "toggle"
    /\ last.mgr = prev.mgr
    /\ last.status = "Disabled"
    /\ Len(last.path) >= 3
    /\ last.path[2] = "Connecting"

Upstream == {"tor", "dnscrypt", "i2p"}

\* C17: a step that toggles the onion-routing, encrypted-DNS or mix-network
\* service leaves the forwarding proxy's status, enabled flag, listen address,
\* listen port and three capability flags as they were, and a step that
\* flips a capability flag leaves every upstream manager as it was.
C17_UpstreamProxyFrame ==
    [][/\ (\/ \E m \in Upstream : ModuleOf(m)' # ModuleOf(m)
           \/ last'.op = "toggle" /\ last'.mgr \in Upstream)
            => /\ proxy_module'.status = proxy_module.status
               /\ proxy_module'.config.enabled = proxy_module.config.enabled
               /\ proxy_module'.config.listen_address
                    = proxy_module.config.listen_address
               /\ proxy_module'.config.listen_port
                    = proxy_module.config.listen_port
               /\ \A flag \in Capabilities :
                    proxy_module'.config[flag] = proxy_module.config[flag]
               /\ proxy_module' = proxy_module
       /\ (last'.op = "capability" /\ last'.mgr = "proxy")
            => \A m \in Upstream : ModuleOf(m)' = ModuleOf(m)]_vars

\* The onion-routing service has just been switched on while the proxy runs
\* with its onion-routing capability switched off, and the encrypted-DNS
\* capability has been switched off while that service runs.
C17_Witness ==
    /\ last.op = "toggle"
    /\ last.mgr = "tor"
    /\ tor_module.enabled
    /\ proxy_module.config.enabled
    /\ ~proxy_module.config.tor_enabled
    /\ ~proxy_module.config.dnscrypt_enabled
    /\ dnscrypt_module.enabled

\* C19: a toggle of a service appends exactly one record, at Info level when
\* the transition succeeds and at Error level when it ends in Failed.
C19_OneRecordPerToggle ==
    (/\ last.op = "toggle"
     /\ last.mgr \in Stateful
     /\ ~panicked)
      => /\ Len(last.emitted) = 1
         /\ last.emitted[1].level
              = IF ServiceState(StatusOf(last.mgr)) = "Failed" THEN "Error"
                ELSE "Info"

\* C21: when the spawn of the daemon fails, the enabling toggle does not
\* bring the program down: it returns an error, appends an Error record and
\* leaves the service Failed with the process slot empty.
C21_SpawnFailureReturned ==
    (/\ last.op = "toggle"
     /\ last.mgr = "tor"
     /\ ~last.enabled
     /\ ~last.arg.spawn_ok)
      => /\ ~panicked
         /\ last.ret # "Ok"
         /\ \E i \in DOMAIN last.emitted : last.emitted[i].level = "Error"
         /\ tor_module.connection_status = "Failed"
         /\ tor_module.tor_process = None

\* The children of TorModule that run.
Alive ==
    tor_children.older + IF tor_children.newest = "running" THEN 1 ELSE 0

\* C22: after a toggle that disables the onion-routing service the process
\* slot is empty, no child runs and the status is Disabled, whatever the
\* status was before and whether the child still ran or had ended by itself;
\* and the disabling call on a manager that holds no process does the same
\* without failing.
C22_DisableLeavesNoProcess ==
    /\ (last.op = "toggle" /\ last.mgr = "tor" /\ last.enabled)
         => /\ tor_module.tor_process = None
            /\ tor_module.connection_status = "Disabled"
            /\ ~tor_module.enabled
            /\ Alive = 0
            /\ last.ret = "Ok"
            /\ ~panicked
    /\ LET held_none == [tor_module EXCEPT !.enabled = TRUE, !.tor_process = None]
            r == toggle_tor(held_none, TRUE, TRUE)
        IN  /\ ~r.panic
            /\ r.ret = "Ok"
            /\ r.process = "keep"
            /\ r.self.tor_process = None
            /\ r.self.connection_status = "Disabled"

\* The service was switched off after a failed connect whose child had
\* already ended by itself.
C22_Witness ==
    /\ last.op = "toggle"
    /\ last.mgr = "tor"
    /\ last.enabled
    /\ last.status = "Failed"
    /\ tor_children.newest = "exited"
    /\ tor_module.tor_process = None

\* C23: at most one child of TorModule runs, a running child is the one the
\* slot holds, and a step that spawns starts from an empty slot.
C23_OneDaemon ==
    /\ [](/\ Alive <= 1
          /\ tor_children.older = 0
          /\ tor_children.newest = "running" => tor_module.tor_process # None)
    /\ [][(tor_children' # tor_children /\ tor_children'.newest = "running")
            => /\ tor_module.tor_process = None
               /\ tor_module'.tor_process # None
               /\ tor_children.newest # "running"]_vars

\* The daemon runs in the slot after having been spawned, killed and
\* spawned again.
C23_Witness ==
    /\ prev.op = "toggle"
    /\ prev.mgr = "tor"
    /\ prev.enabled
    /\ last.op = "toggle"
    /\ last.mgr = "tor"
    /\ ~last.enabled
    /\ tor_children.newest = "running"
    /\ tor_module.tor_process # None
    /\ Alive = 1

\* The enabled flags and the displayed states of the four services agree.
FlagsAgree ==
    /\ dnscrypt_module.enabled <=> dnscrypt_module.connection_status = "Connected"
    /\ i2p_module.enabled <=> i2p_module.connection_status = "Connected"
    /\ proxy_module.config.enabled <=> proxy_module.status = "Running"
    /\ ~tor_module.enabled <=> tor_module.connection_status = "Disabled"

\* The process slot of TorModule is filled exactly while Tor is enabled.
HandleWhileEnabled == tor_module.tor_process # None <=> tor_module.enabled

\* FlagsAgree and HandleWhileEnabled in the states where no handler panicked.
AgreeWhileAlive == ~panicked => FlagsAgree /\ HandleWhileEnabled

\* C34: in every reachable state the enabled flag and the displayed state
\* agree: DNSCrypt and I2P are enabled exactly when Connected, the proxy is
\* enabled exactly when Running, Tor is not enabled exactly when Disabled, and
\* Tor's process slot is filled exactly when Tor is enabled.
C34_FlagsAndHandleAgree == FlagsAgree /\ HandleWhileEnabled

----------------------------------------------------------------------------
(* Claims about the Logger, checked under SpecLogger. *)

Min(a, b) == IF a <= b THEN a ELSE b

\* C6: the logger never holds more than its capacity max_logs of records; it
\* holds the last max_logs of the records appended, in the order they were
\* appended; and after max_logs + 1 appends to an empty logger it holds
\* exactly max_logs records, the first appended one is gone and the rest are
\* in their order.
C6_CapacityFifo ==
    /\ Len(logger.logs) <= logger.max_logs
    /\ logger.logs = SubSeq(sent, Len(sent) - Min(logger.max_logs, Len(sent)) + 1,
                            Len(sent))
    /\ Len(sent) = logger.max_logs + 1
         => /\ Len(logger.logs) = logger.max_logs
            /\ logger.logs = Tail(sent)

\* Three records, the first two different, were appended to a logger of
\* capacity two.
C6_Witness ==
    /\ logger.max_logs = 2
    /\ Len(sent) = logger.max_logs + 1
    /\ Len(logger.logs) = logger.max_logs
    /\ logger.logs = <<sent[2], sent[3]>>
    /\ sent[1] # sent[2]
    /\ sent[2] # sent[3]

\* The filters a reader of the buffer may set.
LevelFilters == LogLevel \cup {None}
ModuleFilters == {None, "", "o", "x", "Tor"}

Filtered(self, level, module) ==
    [self EXCEPT !.filter_level = level, !.filter_module = module]

\* C16: after clear() the buffer holds no records and, until the next log()
\* call, the display under every level and module filter is empty; the
\* records logged since the clear are held in order exactly as a new Logger
\* of the same capacity holds them.
C16_ClearThenFresh ==
    /\ last.op = "clear" => logger.logs = <<>>
    /\ sent = <<>>
         => \A level \in LevelFilters, module \in ModuleFilters :
              Logger_ui(Filtered(logger, level, module)) = <<>>
    /\ logger.logs
         = LogAll([Logger_new EXCEPT !.max_logs = logger.max_logs], sent).logs
    /\ Logger_ui(logger) = logger.logs

\* A clear() that found records, then one log() whose record is the only
\* one held, shown under a matching module filter and hidden under another.
C16_Witness ==
    /\ prev.op = "clear"
    /\ prev.emitted # <<>>
    /\ last.op = "log"
    /\ logger.logs = last.emitted
    /\ last.emitted[1].module = "Tor"
    /\ Logger_ui(Filtered(logger, None, "o")) = logger.logs
    /\ Logger_ui(Filtered(logger, None, "x")) = <<>>

----------------------------------------------------------------------------
(* Claims about the shared Logger, checked under SpecBus. *)

InLog(m) == appending[m].pc # "idle"

\* The records the managers hand to Logger::log.
Numbered == {Info(ModuleName(m), n) : m \in Appenders, n \in 1 .. MaxAppends}

Newest(seq, n) == SubSeq(seq, Len(seq) - Min(n, Len(seq)) + 1, Len(seq))

----------------------------------------------------------------------------
(* Reading the entity collections. *)

Collections == {"bridges", "servers", "tunnels", "rules", "configs", "subscriptions"}

Entities(collection) ==
    CASE collection = "bridges" -> tor_module.bridges
      [] collection = "servers" -> dnscrypt_module.servers
      [] collection = "tunnels" -> i2p_module.tunnels
      [] collection = "rules" -> firewall_module.rules
      [] collection = "configs" -> vpn_module.configs
      [] collection = "subscriptions" -> vpn_module.subscriptions

\* The id cursor of a collection.
Cursor(collection) ==
    CASE collection = "bridges" -> tor_module.next_bridge_id
      [] collection = "servers" -> dnscrypt_module.next_server_id
      [] collection = "tunnels" -> i2p_module.next_tunnel_id
      [] collection = "rules" -> firewall_module.next_rule_id
      [] collection = "configs" -> vpn_module.next_config_id
      [] collection = "subscriptions" -> vpn_module.next_subscription_id

\* The selection reference into a collection.
SelectionOf(collection) ==
    CASE collection = "bridges" -> tor_module.selected_bridge
      [] collection = "servers" -> dnscrypt_module.selected_server
      [] collection = "tunnels" -> i2p_module.selected_tunnel
      [] collection = "rules" -> firewall_module.selected_rule
      [] collection = "configs" -> vpn_module.selected_config
      [] collection = "subscriptions" -> vpn_module.selected_subscription

\* The collection the handler op of manager mgr removes from.
RemovesFrom(mgr, op) ==
    CASE op = "remove_subscription" -> "subscriptions"
      [] op = "remove" /\ mgr = "tor" -> "bridges"
      [] op = "remove" /\ mgr = "dnscrypt" -> "servers"
      [] op = "remove" /\ mgr = "i2p" -> "tunnels"
      [] op = "remove" /\ mgr = "firewall" -> "rules"
      [] op = "remove" /\ mgr = "vpn" -> "configs"
      [] OTHER -> None

----------------------------------------------------------------------------
(* Claims about the GUI thread and the mutex, checked under SpecFrame. *)

----------------------------------------------------------------------------
(* Claims about the entity collections, checked under SpecEntities. *)

\* C1: in every collection the ids given out, in the order they were given
\* out, are strictly increasing, so none is given out twice; the cursor is
\* above all of them; and the entities held have pairwise distinct ids that
\* were given out.  This holds after every sequence of adds and removes, a
\* collection emptied in between included.
C1_IdsIncreaseNeverReused ==
    \A collection \in Collections :
       LET given == allocated[collection]
           held == Entities(collection)
       IN  /\ \A i, j \in DOMAIN given : i < j => given[i] < given[j]
           /\ \A i \in DOMAIN given : given[i] < Cursor(collection)
           /\ \A i, j \in DOMAIN held : i # j => held[i].id # held[j].id
           /\ \A i \in DOMAIN held : \E j \in DOMAIN given : given[j] = held[i].id

\* A bridge was saved into the emptied bridge list after an earlier save: the
\* list holds that bridge alone, under the newest id.
C1_Witness ==
    /\ last.mgr = "tor"
    /\ last.op = "save"
    /\ last.emitted # <<>>
    /\ Len(allocated.bridges) >= Len(InitAllocated.bridges) + 2
    /\ Ids(tor_module.bridges) = <<allocated.bridges[Len(allocated.bridges)]>>

\* C5: every selection reference is empty or the id of an entity its
\* collection holds; a remove of the selected entity clears the selection and
\* a remove of another entity, or of none, leaves the selection as it was.
C5_SelectionLive ==
    /\ \A collection \in Collections :
         \/ SelectionOf(collection) = NoId
         \/ SelectionOf(collection) \in IdSet(Entities(collection))
    /\ RemovesFrom(last.mgr, last.op) \in Collections \ {"configs"}
         => SelectionOf(RemovesFrom(last.mgr, last.op))
              = IF last.selection = last.arg THEN NoId ELSE last.selection
    /\ RemovesFrom(last.mgr, last.op) = "configs"
         => /\ SelectionOf("configs") = NoId
            /\ SelectionOf("subscriptions") = last.selection

\* The selected DNS server was removed and the selection is empty.
C5_Witness ==
    /\ last.mgr = "dnscrypt"
    /\ last.op = "remove"
    /\ last.selection # NoId
    /\ last.selection = last.arg
    /\ last.emitted # <<>>
    /\ dnscrypt_module.selected_server = NoId
    /\ dnscrypt_module.servers # <<>>

\* The enabled flag of an entity; a subscription has none.
Flag(entity) == IF "enabled" \in DOMAIN entity THEN entity.enabled ELSE TRUE

\* The entities of a list that are not in the other list with the same id
\* and the same enabled flag.
NotIn(held, other) ==
    {held[i] : i \in {k \in DOMAIN held :
                        \A n \in DOMAIN other :
                           \/ other[n].id # held[k].id
                           \/ Flag(other[n]) # Flag(held[k])}}

\* C20: a step that adds an entity to a collection, removes one from it or
\* flips the enabled flag of one appends exactly one record, at Info level,
\* whose message names an entity the step added, removed or flipped.
C20_MutationsLogged ==
    [][\A collection \in Collections :
         LET affected == NotIn(Entities(collection), Entities(collection)')
                           \cup NotIn(Entities(collection)', Entities(collection))
         IN  affected # {}
               => /\ Len(last'.emitted) = 1
                  /\ last'.emitted[1].level = "Info"
                  /\ Len(last'.emitted[1].message) = 2
                  /\ \E entity \in affected :
                       last'.emitted[1].message[2] = entity.name]_vars

\* The payload fields of a rule that hold Some value.
Populated(rule) ==
    {field \in {"application_path", "port", "protocol", "address"} :
       CASE field = "application_path" -> rule.application_path # None
         [] field = "port" -> rule.port # NoPort
         [] field = "protocol" -> rule.protocol # None
         [] OTHER -> rule.address # None}

\* The payload fields a rule of the type is to hold.
PayloadOf(rule_type) ==
    CASE rule_type = "Application" -> {"application_path"}
      [] rule_type = "Port" -> {"port", "protocol"}
      [] OTHER -> {"address"}

\* Every rule holds the payload of its type, the protocol field, which
\* FirewallRule::new fills for every type, left aside.
PayloadButProtocol ==
    \A i \in DOMAIN firewall_module.rules :
      LET rule == firewall_module.rules[i]
      IN  Populated(rule) \ {"protocol"} = PayloadOf(rule.rule_type) \ {"protocol"}

\* C30: in every reachable state every firewall rule has the payload of its
\* type populated and no other: application_path for Application, port and
\* protocol for Port, address for Address.
C30_OnePayloadPerRule ==
    \A i \in DOMAIN firewall_module.rules :
      LET rule == firewall_module.rules[i]
      IN  Populated(rule) = PayloadOf(rule.rule_type)

\* The calls that add an entity on request and the calls that delete one.
AddOps == {"save", "save_subscription", "import_vpn_url"}
RemoveOps == {"remove", "remove_subscription"}

\* Right after construction no collection holds an entity.
ConstructedEmpty ==
    last.op = None => \A collection \in Collections : Entities(collection) = <<>>

\* The save of a form that an entity's edit button opened adds no entity.
EditSaveAddsNothing ==
    [][(last.op = "edit_button" /\ last'.op = "save" /\ last'.mgr = last.mgr)
         => \A collection \in Collections :
              IdSet(Entities(collection)') = IdSet(Entities(collection))]_vars

\* An id enters a collection only by an add call and leaves it only by a
\* delete call.
OnlyAddAndDelete ==
    [][\A collection \in Collections :
         /\ IdSet(Entities(collection)') \ IdSet(Entities(collection)) # {}
              => last'.op \in AddOps
         /\ IdSet(Entities(collection)) \ IdSet(Entities(collection)') # {}
              => last'.op \in RemoveOps]_vars

\* A subscription enters with no configs, and only update_subscription
\* changes the configs of a subscription.
OnlyRefreshPopulates ==
    [][\A i \in DOMAIN vpn_module'.subscriptions :
         LET after == vpn_module'.subscriptions[i]
             index == Position(vpn_module.subscriptions, after.id)
         IN  IF index = 0
             THEN after.configs = <<>>
             ELSE after.configs # vpn_module.subscriptions[index].configs
                    => last'.op = "update_subscription"]_vars

\* C31: an entity enters a collection only through an add call and leaves it
\* only through a delete call; constructing the managers adds no entity, the
\* save of the form opened by an entity's edit button adds no entity, and a
\* subscription is created with no configs, which only a refresh populates.
C31_ExplicitAddAndDelete ==
    /\ []ConstructedEmpty
    /\ EditSaveAddsNothing
    /\ OnlyAddAndDelete
    /\ OnlyRefreshPopulates

\* The collection a remove or a toggle of an entity looks the id up in.
TargetOf(call) ==
    IF call.op = "toggle_entity" THEN RemovesFrom(call.mgr, "remove")
    ELSE RemovesFrom(call.mgr, call.op)

\* The call is a remove or a toggle of an entity whose id the collection, as
\* it is before the call, does not hold.
MissesId(call) ==
    /\ call.op \in RemoveOps \cup {"toggle_entity"}
    /\ call.arg \notin IdSet(Entities(TargetOf(call)))

\* C37: a remove or a toggle of an entity called with an id that is not in the
\* collection changes nothing: the collection with every enabled flag, the
\* selection, the id cursor, the rest of the managers and the logger are as
\* before.
C37_MissingIdChangesNothing ==
    [][MissesId(last')
         => /\ \A collection \in Collections :
                 /\ Entities(collection)' = Entities(collection)
                 /\ SelectionOf(collection)' = SelectionOf(collection)
                 /\ Cursor(collection)' = Cursor(collection)
            /\ tor_module' = tor_module
            /\ dnscrypt_module' = dnscrypt_module
            /\ i2p_module' = i2p_module
            /\ firewall_module' = firewall_module
            /\ vpn_module' = vpn_module
            /\ logger' = logger]_vars

\* Rule 1 was removed and then toggled, or removed a second time, while
\* another rule is selected: nothing was logged and the selection stands.
C37_Witness ==
    /\ last.mgr = "firewall"
    /\ last.op \in {"remove", "toggle_entity"}
    /\ last.arg = 1
    /\ last.emitted = <<>>
    /\ 1 \notin IdSet(firewall_module.rules)
    /\ firewall_module.selected_rule # NoId
    /\ firewall_module.selected_rule = last.selection

----------------------------------------------------------------------------
(* Claims about requests that fail validation, checked under SpecValidation. *)

\* The call is a save with an empty required text field, or a listen port
\* edit whose text is no integer of 0 .. 65535.
FailsValidation(call) ==
    \/ /\ call.op = "save"
       /\ call.mgr = "tor"
       /\ (call.arg[1] = "" \/ call.arg[3] = "")
    \/ /\ call.op = "save"
       /\ call.mgr \in {"dnscrypt", "i2p"}
       /\ \E i \in {1, 3} : call.arg[i] = ""
    \/ /\ call.op = "save"
       /\ call.mgr = "dnscrypt"
       /\ call.arg[2] = ""
    \/ /\ call.op = "save"
       /\ call.mgr = "firewall"
       /\ call.arg[1] = ""
    \/ /\ call.op = "save"
       /\ call.mgr = "vpn"
       /\ \E i \in 1 .. 3 : call.arg[i] = <<>>
    \/ /\ call.op = "save_subscription"
       /\ \E i \in 1 .. 2 : call.arg[i] = <<>>
    \/ /\ call.op = "listen_port"
       /\ ~parse_u16(call.arg.text).ok

----------------------------------------------------------------------------
(* Claims about the refresh of a subscription, checked under SpecRefresh. *)

\* The call was an update_subscription that ended with its success record.
Refreshed(call) ==
    /\ call.op = "update_subscription"
    /\ call.emitted # <<>>
    /\ call.emitted[Len(call.emitted)].level = "Info"

\* The transport failed or the HTTP status is not 2xx.
FetchFailed(fetch) == ~fetch.send_ok \/ fetch.status < 200 \/ fetch.status > 299

\* C7: a successful update_subscription(id) replaces the subscription's
\* configs by the fetched ones, gives them consecutive ids from the cursor on,
\* leaves the cursor one past the highest id given, sets last_updated to a
\* value other than "never" and leaves the subscription's id as it was; a
\* document of the one vmess entry named A gives exactly one Vmess config
\* named A.
C7_RefreshReplaces ==
    [][Refreshed(last') =>
         LET index == Position(vpn_module.subscriptions, last'.arg.id)
             subscription == vpn_module.subscriptions[index]
             after == vpn_module'.subscriptions[index]
             cursor == vpn_module.next_config_id
             fetched == download_and_parse_clash_config(subscription.url,
                                                        last'.arg.fetch).v
         IN  /\ index # 0
             /\ Ids(vpn_module'.subscriptions) = Ids(vpn_module.subscriptions)
             /\ after.id = last'.arg.id
             /\ after.last_updated # "never"
             /\ Len(after.configs) = Len(fetched)
             /\ \A i \in DOMAIN fetched :
                  after.configs[i] = [fetched[i] EXCEPT !.id = cursor + i - 1]
             /\ vpn_module'.next_config_id = cursor + Len(after.configs)
             /\ last'.arg.fetch.docs = <<Doc(TRUE, <<proxy_vmess_A>>)>>
                  => /\ Len(after.configs) = 1
                     /\ after.configs[1].protocol = "Vmess"
                     /\ after.configs[1].name = <<65>>]_vars

\* A subscription refreshed before was refreshed again with two entries: they
\* hold the two ids below the cursor, which are not the ids of the first refresh.
C7_Witness ==
    /\ Refreshed(last)
    /\ \E i \in DOMAIN vpn_module.subscriptions :
         LET subscription == vpn_module.subscriptions[i]
         IN  /\ subscription.id = last.arg.id
             /\ subscription.last_updated # "never"
             /\ Len(subscription.configs) = 2
             /\ subscription.configs[1].id > VpnModule_new.next_config_id
             /\ subscription.configs[2].id = subscription.configs[1].id + 1
             /\ vpn_module.next_config_id = subscription.configs[2].id + 1

\* C8: when the fetch fails, by a transport error or a status that is not
\* 2xx, update_subscription leaves every subscription's configs and
\* last_updated and the config id cursor as they were.
C8_FailedFetchKeeps ==
    [][(last'.op = "update_subscription" /\ FetchFailed(last'.arg.fetch))
         => /\ vpn_module'.subscriptions = vpn_module.subscriptions
            /\ vpn_module'.next_config_id = vpn_module.next_config_id]_vars

\* A refreshed subscription met a 404 on its next refresh and still holds its
\* configs and its time of refresh.
C8_Witness ==
    /\ last.op = "update_subscription"
    /\ last.arg.fetch.send_ok
    /\ last.arg.fetch.status = 404
    /\ last.emitted # <<>>
    /\ last.emitted[Len(last.emitted)].level = "Error"
    /\ \E i \in DOMAIN vpn_module.subscriptions :
         /\ vpn_module.subscriptions[i].id = last.arg.id
         /\ vpn_module.subscriptions[i].last_updated # "never"
         /\ vpn_module.subscriptions[i].configs # <<>>

\* parse_clash_proxy's match on the lower-cased type has an arm for the entry.
Recognised(proxy) ==
    to_lowercase(yaml_str_or(proxy.type, s_unknown))
        \in {s_vmess, s_ss, s_shadowsocks, s_trojan}

\* The protocol the arm of the entry's type gives.
ProtocolOf(proxy) ==
    LET proxy_type == to_lowercase(yaml_str_or(proxy.type, s_unknown))
    IN  IF proxy_type = s_vmess THEN "Vmess"
        ELSE IF proxy_type = s_trojan THEN "Trojan"
        ELSE "Shadowsocks"

\* The fetch hands over a document whose proxies key is a list.
HasProxies(fetch) ==
    /\ fetch.send_ok
    /\ is_success(fetch.status)
    /\ fetch.text_ok
    /\ fetch.yaml_ok
    /\ fetch.docs # <<>>
    /\ fetch.docs[1].proxies.is_vec

\* The numbers the records of a refresh report.
Counts(call) ==
    {call.emitted[i].message[2] :
       i \in {j \in DOMAIN call.emitted :
                call.emitted[j].message[1] \in {"parsed configs", "subscription updated"}}}

\* A refresh of a listed subscription that met a proxies list succeeded, and
\* the subscription holds one config per recognised entry, in document order.
SkippedInOrder ==
    (/\ last.op = "update_subscription"
     /\ Position(vpn_module.subscriptions, last.arg.id) # 0
     /\ HasProxies(last.arg.fetch))
      => LET entries == last.arg.fetch.docs[1].proxies.items
             kept == SelectSeq(entries, Recognised)
             subscription ==
                 vpn_module.subscriptions[Position(vpn_module.subscriptions,
                                                   last.arg.id)]
         IN  /\ Refreshed(last)
             /\ Len(subscription.configs) = Len(kept)
             /\ \A i \in DOMAIN kept :
                  /\ subscription.configs[i].protocol = ProtocolOf(kept[i])
                  /\ subscription.configs[i].server
                       = yaml_str_or(kept[i].server, s_unknown)

\* C29: when a Clash subscription is parsed, an entry whose type is not vmess,
\* ss, shadowsocks or trojan is skipped without making the parse fail and is
\* counted (some record of the refresh reports the number of skipped entries);
\* the subscription's configs are exactly the recognised entries, in document
\* order.
C29_UnknownTypeSkippedAndCounted ==
    /\ SkippedInOrder
    /\ (/\ last.op = "update_subscription"
        /\ Position(vpn_module.subscriptions, last.arg.id) # 0
        /\ HasProxies(last.arg.fetch))
         => LET entries == last.arg.fetch.docs[1].proxies.items
                skipped == Len(entries) - Len(SelectSeq(entries, Recognised))
            IN  skipped # 0 => skipped \in Counts(last)

\* The integer of 0 .. 65535 that differs from n by a multiple of 65536.
Modulo65536(n) ==
    CHOOSE p \in 0 .. 65535 : \E k \in -2 .. 2 : n = p + 65536 * k

\* The port parse_clash_proxy falls back to.
DefaultPort(protocol) == IF protocol = "Shadowsocks" THEN 8388 ELSE 443

\* C36: a Clash entry whose port is an integer outside 0 .. 65535, negative
\* ones included, is accepted and its config's port is that integer modulo
\* 65536; an entry whose port is absent or is no integer gets the default port
\* of its protocol, 443 for vmess and trojan and 8388 for ss.
C36_ClashPortWraps ==
    (/\ last.op = "update_subscription"
     /\ Position(vpn_module.subscriptions, last.arg.id) # 0
     /\ HasProxies(last.arg.fetch))
      => LET entries == last.arg.fetch.docs[1].proxies.items
             kept == SelectSeq(entries, Recognised)
             subscription ==
                 vpn_module.subscriptions[Position(vpn_module.subscriptions,
                                                   last.arg.id)]
         IN  /\ Len(subscription.configs) = Len(kept)
             /\ \A i \in DOMAIN kept :
                  subscription.configs[i].port
                    = IF kept[i].port.t = "Integer"
                      THEN Modulo65536(kept[i].port.n)
                      ELSE DefaultPort(ProtocolOf(kept[i]))

\* The document with the ports -1, "8443", none, 65536 and none was
\* refreshed into the configs with the ports 65535, 443, 8388, 0 and 443.
C36_Witness ==
    /\ Refreshed(last)
    /\ \E i \in DOMAIN vpn_module.subscriptions :
         LET configs == vpn_module.subscriptions[i].configs
         IN  /\ vpn_module.subscriptions[i].id = last.arg.id
             /\ Len(configs) = 5
             /\ configs[1].port = 65535
             /\ configs[2].port = 443
             /\ configs[3].port = 8388
             /\ configs[4].port = 0
             /\ configs[5].port = 443

----------------------------------------------------------------------------
(* Claims about the ids of the VPN profiles, checked under SpecProfiles. *)

\* The configs of the subscriptions, one subscription after the other.
RECURSIVE SubscriptionConfigs(_)
SubscriptionConfigs(subscriptions) ==
    IF subscriptions = <<>> THEN <<>>
    ELSE Head(subscriptions).configs \o SubscriptionConfigs(Tail(subscriptions))

\* Every VPN config held: the ones managed by hand, then the subscriptions'.
AllConfigs == vpn_module.configs \o SubscriptionConfigs(vpn_module.subscriptions)

\* C35: after any sequence of saves, removes, imports and refreshes the ids of
\* all VPN configs, the ones managed by hand and the ones of all
\* subscriptions together, are pairwise distinct and below next_config_id.
C35_ProfileIdsDistinct ==
    /\ \A i, j \in DOMAIN AllConfigs : i # j => AllConfigs[i].id # AllConfigs[j].id
    /\ \A i \in DOMAIN AllConfigs : AllConfigs[i].id < vpn_module.next_config_id

\* A refresh gave a subscription two configs while a config managed by hand
\* is held: three ids, the subscription's two following the other.
C35_Witness ==
    /\ Refreshed(last)
    /\ Len(vpn_module.configs) = 1
    /\ Len(AllConfigs) = 3
    /\ AllConfigs[2].id = vpn_module.configs[1].id + 1
    /\ AllConfigs[3].id = vpn_module.configs[1].id + 2

----------------------------------------------------------------------------
(* Claims about import_vpn_url, checked under SpecImport. *)

\* Links that do not decode: no scheme, an unsupported scheme, nothing, and
\* ss:// bodies that are neither base64 nor method:password@host:port.
Undecodable ==
    {url_not_a_valid_uri, url_http, url_empty, url_ss_not_a_valid_uri,
     url_ss_plain_bad_port}

\* C9: import_vpn_url of a link that does not decode returns an error; an
\* import that returns an error leaves the configs and the id cursor as they
\* were; an import that succeeds appends exactly one config, whose id is the
\* cursor before the call; and no import panics.
C9_ImportAllOrNothing ==
    [][last'.op = "import_vpn_url" =>
         /\ ~panicked'
         /\ last'.arg.url \in Undecodable => last'.ret # "Ok"
         /\ IF last'.ret = "Ok"
            THEN /\ Len(vpn_module'.configs) = Len(vpn_module.configs) + 1
                 /\ SubSeq(vpn_module'.configs, 1, Len(vpn_module.configs))
                      = vpn_module.configs
                 /\ vpn_module'.configs[Len(vpn_module'.configs)].id
                      = vpn_module.next_config_id
            ELSE /\ vpn_module'.configs = vpn_module.configs
                 /\ vpn_module'.next_config_id = vpn_module.next_config_id]_vars

\* "ss://not-a-valid-uri" was refused after a link was imported: the imported
\* config is the newest and the cursor is one past its id.
C9_Witness ==
    /\ last.op = "import_vpn_url"
    /\ last.arg.url = url_ss_not_a_valid_uri
    /\ last.ret # "Ok"
    /\ ~panicked
    /\ Len(allocated.configs) = Len(InitAllocated.configs) + 1
    /\ vpn_module.configs # <<>>
    /\ vpn_module.configs[Len(vpn_module.configs)].id
         = allocated.configs[Len(allocated.configs)]
    /\ vpn_module.next_config_id = allocated.configs[Len(allocated.configs)] + 1

\* The JSON value a vmess:// link carries, Null when it carries none.
Payload(url_str) ==
    LET decoded == base64_decode(From(url_str, Len(s_vmess_scheme)))
        json_str == from_utf8(decoded.v)
        json == serde_json_from_str(json_str.v)
    IN  IF decoded.ok /\ json_str.ok /\ json.ok THEN json.v ELSE JsonNull

\* C10: the import of a vmess:// link whose payload is base64 of a JSON object
\* gives a Vmess config with name = ps, server = add, port = the number the
\* port string writes, uuid = id and encryption = scy, for the keys that are
\* there as strings (the port string one of a u16); without ps the import
\* still succeeds and the name is the default one, and without scy the
\* encryption is "auto".  The link of {"ps":"X","add":"h","port":"1","id":"u",
\* "scy":"auto"} gives X, h, 1, u and auto.
C10_VmessFields ==
    (/\ last.op = "import_vpn_url"
     /\ starts_with(last.arg.url, s_vmess_scheme)
     /\ Payload(last.arg.url).t = "Object")
      => LET json == Payload(last.arg.url)
             ps == JsonIndex(json, s_ps)
             add == JsonIndex(json, s_add)
             port == JsonIndex(json, s_port)
             id == JsonIndex(json, s_id)
             scy == JsonIndex(json, s_scy)
             config == vpn_module.configs[Len(vpn_module.configs)]
         IN  /\ last.ret = "Ok"
             /\ config.protocol = "Vmess"
             /\ ps.t = "String" => config.name = ps.s
             /\ ps.t = "Null" => config.name = s_imported_vmess
             /\ add.t = "String" => config.server = add.s
             /\ (port.t = "String" /\ parse_u16(port.s).ok)
                  => config.port = parse_u16(port.s).v
             /\ id.t = "String" => config.uuid = id.s
             /\ scy.t = "String" => config.encryption = scy.s
             /\ scy.t = "Null" => config.encryption = s_auto
             /\ last.arg.url = url_vmess_full
                  => /\ config.name = <<88>>
                     /\ config.server = <<104>>
                     /\ config.port = 1
                     /\ config.uuid = <<117>>
                     /\ config.encryption = s_auto

\* The link without "ps" was imported under the default name.
C10_Witness ==
    /\ last.op = "import_vpn_url"
    /\ last.arg.url = url_vmess_no_ps
    /\ last.ret = "Ok"
    /\ vpn_module.configs[Len(vpn_module.configs)].name = s_imported_vmess
    /\ vpn_module.configs[Len(vpn_module.configs)].server = <<104>>
    /\ vpn_module.configs[Len(vpn_module.configs)].port = 1

\* Why a vmess:// link is malformed: the first of base64, UTF-8, JSON and
\* port that fails on it, "none" when none does.
Malformed(url_str) ==
    LET decoded == base64_decode(From(url_str, Len(s_vmess_scheme)))
        json_str == from_utf8(decoded.v)
        json == serde_json_from_str(json_str.v)
        port == JsonIndex(json.v, s_port)
    IN  IF ~decoded.ok THEN "base64"
        ELSE IF ~json_str.ok THEN "utf8"
        ELSE IF ~json.ok THEN "json"
        ELSE IF port.t = "String" /\ ~parse_u16(port.s).ok THEN "port"
        ELSE "none"

VmessUrls == {url_str \in Urls : starts_with(url_str, s_vmess_scheme)}

\* C25: the import of a vmess:// link that is malformed (base64, UTF-8, JSON
\* or a port string that is no u16) returns an error and adds no config, and
\* links malformed for different reasons get different errors.
C25_VmessErrorPerCause ==
    (/\ last.op = "import_vpn_url"
     /\ last.arg.url \in VmessUrls
     /\ Malformed(last.arg.url) # "none")
      => /\ last.ret # "Ok"
         /\ last.emitted = <<>>
         /\ \A other \in VmessUrls :
              Malformed(other) \notin {"none", Malformed(last.arg.url)}
                => parse_vmess_url(other).e # last.ret

\* C26: the import of a vmess:// link whose JSON object has no string under
\* "add" (the server) or none under "id" (the credential) returns an error
\* and adds no config.
C26_RequiredKeys ==
    (/\ last.op = "import_vpn_url"
     /\ last.arg.url \in VmessUrls
     /\ Payload(last.arg.url).t = "Object"
     /\ \/ JsonIndex(Payload(last.arg.url), s_add).t # "String"
        \/ JsonIndex(Payload(last.arg.url), s_id).t # "String")
      => /\ last.ret # "Ok"
         /\ last.emitted = <<>>

\* The config the last import appended.
NewestConfig == vpn_module.configs[Len(vpn_module.configs)]

\* "aes-256-gcm:pw@h:8388" as a config named name.
IsSsProfile(config, name) ==
    /\ config.protocol = "Shadowsocks"
    /\ config.name = name
    /\ config.encryption = s_aes_256_gcm
    /\ config.uuid = <<112, 119>>
    /\ config.server = <<104>>
    /\ config.port = 8388

\* C27: the import of an ss:// link decodes the body before '#' as base64
\* and, when that fails, reads it as plain method:password@host:port; in both
\* layouts the fragment is the name (the default name without one), the
\* method the encryption and the password the credential; a body without
\* '@', without ':' or with a port that is no u16 returns an error.
C27_SsLayouts ==
    last.op = "import_vpn_url"
      => /\ last.arg.url \in {url_ss_base64_tag, url_ss_plain_tag}
              => last.ret = "Ok" /\ IsSsProfile(NewestConfig, <<116, 97, 103>>)
         /\ last.arg.url = url_ss_base64
              => last.ret = "Ok" /\ IsSsProfile(NewestConfig, s_imported_shadowsocks)
         /\ last.arg.url \in {url_ss_not_a_valid_uri, url_ss_plain_bad_port,
                              url_ss_base64_no_at, url_ss_base64_bad_port}
              => last.ret # "Ok" /\ last.emitted = <<>>

\* "pw@h:443" as a Trojan config named name.
IsTrojanProfile(config, name) ==
    /\ config.protocol = "Trojan"
    /\ config.name = name
    /\ config.uuid = <<112, 119>>
    /\ config.server = <<104>>
    /\ config.port = 443

\* C28: the import of trojan://password@host:port[?query]#tag gives a Trojan
\* config with the password as credential, the host as server, the port and
\* the tag as name (the default name without a tag), nothing of the query
\* being kept; a link without '@', without ':' between host and port or with
\* a port that is no u16 returns an error.
C28_TrojanFields ==
    last.op = "import_vpn_url"
      => /\ last.arg.url = url_trojan_full
              => last.ret = "Ok" /\ IsTrojanProfile(NewestConfig, <<116, 97, 103>>)
         /\ last.arg.url = url_trojan_bare
              => last.ret = "Ok" /\ IsTrojanProfile(NewestConfig, s_imported_trojan)
         /\ last.arg.url \in {url_trojan_no_at, url_trojan_no_port,
                              url_trojan_bad_port}
              => last.ret # "Ok" /\ last.emitted = <<>>

\* The call, made in the state before it (a step that keeps the view is a
\* call), met an error: import_vpn_url's
\* parser refused the link, the fetch or the parse of a refresh failed, the
\* proxy's button asked for a start while a port conflict is recorded, or the
\* connect of an enabling Tor toggle failed.
RaisedError(call) ==
    \/ /\ call.op = "import_vpn_url"
       /\ call.ret # "Ok"
    \/ /\ call.op = "update_subscription"
       /\ Position(vpn_module.subscriptions, call.arg.id) # 0
       /\ ~Fetched(call.arg.fetch)
    \/ /\ call.mgr = "proxy"
       /\ call.op = "toggle"
       /\ ~proxy_module.config.enabled
       /\ proxy_module.port_conflict
    \/ /\ call.mgr = "tor"
       /\ call.op = "toggle"
       /\ ~tor_module.enabled
       /\ call.arg.spawn_ok
       /\ ~call.arg.connect_ok

\* The call returned an error to its caller.
Returned(call) == call.ret # "Ok"

\* The call appended a record at Error or Warning level.
Mirrored(call) ==
    \E i \in DOMAIN call.emitted : call.emitted[i].level \in {"Error", "Warning"}

\* C33: every error raised in a call (a parse failure of import_vpn_url, a
\* fetch or parse failure of update_subscription, a port conflict at the
\* proxy's start, a connect failure of Tor) is returned to the caller and is
\* also logged at Error or Warning level.
C33_ReturnedAndMirrored ==
    [][(current_tab' = current_tab /\ RaisedError(last'))
         => Returned(last') /\ Mirrored(last')]_vars

\* The part of C33 the calls without a return value meet: the error is logged.
ErrorsMirrored ==
    [][(/\ current_tab' = current_tab
        /\ RaisedError(last')
        /\ last'.op # "import_vpn_url") => Mirrored(last')]_vars

----------------------------------------------------------------------------
(* Claims about the forwarding proxy, checked under SpecProxy. *)

\* The last call changed the proxy's listen address or its listen port.
ListenChanged ==
    /\ last.mgr = "proxy"
    /\ \/ last.op = "listen_address"
       \/ /\ last.op = "listen_port"
          /\ parse_u16(last.arg.text).ok
          /\ last.emitted # <<>>

\* C11: changing the proxy's listen address or listen port while it runs
\* stops the proxy and starts it again only if the new port is Available: with
\* the new port InUse the proxy ends stopped; and if the proxy was not
\* running, the change starts nothing.
C11_RestartOnlyIfAvailable ==
    ListenChanged
      => IF last.enabled
         THEN /\ Len(last.path) >= 2
              /\ last.path[2] = "Stopped"
              /\ proxy_module.config.enabled = ~last.arg.in_use
              /\ proxy_module.status = IF last.arg.in_use THEN "Stopped" ELSE "Running"
         ELSE /\ ~proxy_module.config.enabled
              /\ proxy_module.status = "Stopped"
\* The last call asked the proxy to start: the start button on a stopped
\* proxy, or the restart of a running one after its protocol, address or port
\* was changed.
StartRequested ==
    /\ last.mgr = "proxy"
    /\ \/ last.op = "toggle" /\ ~last.enabled
       \/ last.op = "toggle_protocol" /\ last.enabled
       \/ ListenChanged /\ last.enabled

----------------------------------------------------------------------------
(* Claims about the port arbiter, checked under SpecArbiter. *)

\* C24: whenever a call brings the proxy to the running state, and as long
\* as it runs, check_port_conflict has run on the listen address and port it
\* runs on since they last changed.
C24_CheckedBeforeStart ==
    /\ (/\ last.mgr = "proxy"
        /\ \E i \in 2 .. Len(last.path) : last.path[i] = "Running")
         => port_checked = Listen(proxy_module)
    /\ proxy_module.status = "Running" => port_checked = Listen(proxy_module)

\* check_port's answer for a port of the host of the last call.
Available(port) ==
    ~is_port_in_use(last.arg.host, port, port \in last.arg.listening)

\* The Available ports from start_port up to 65535.  No more ports than
\* are listened on are InUse, so the smallest Available one, if any, is among
\* the first Cardinality(listening) + 1.
AvailableFrom(start_port) ==
    {p \in start_port .. Min(65535, start_port + Cardinality(last.arg.listening)) :
       Available(p)}

\* C13: find_available_port(host, start) returns the smallest Available port
\* p with start <= p <= 65535, and no result exactly when every port from
\* start to 65535 is InUse; for start = 65535 with that port Available it
\* returns 65535.
C13_SmallestAvailable ==
    last.op = "find_available_port"
      => /\ last.ret = NoPort <=> AvailableFrom(last.arg.start_port) = {}
         /\ last.ret # NoPort
              => /\ last.ret \in AvailableFrom(last.arg.start_port)
                 /\ \A p \in AvailableFrom(last.arg.start_port) : last.ret <= p
         /\ (last.arg.start_port = 65535 /\ Available(65535)) => last.ret = 65535

\* C14: check_port(host, port) answers InUse exactly when a connection to
\* host:port succeeds within the timeout, and Available for every failure of
\* the connection; so for a host and port that are listened on it answers
\* InUse.
C14_InUseIffConnects ==
    last.op = "is_port_in_use" => last.ret = last.arg.connects

-----------------------------------------------------------------------------
(* The node service settings of the Tor view. *)

TorRunAsNode ==
    /\ Shown("Tor")
    /\ Handle("tor", "run_as_node", None, tor_run_as_node(tor_module))

\* The node settings are drawn only while run_as_node is set.
TorNodeTypeControl ==
    /\ Shown("Tor")
    /\ tor_module.run_as_node
    /\ \E confirmed \in BOOLEAN :
         Handle("tor", "node_type_control", [confirmed |-> confirmed],
                tor_node_type_control(tor_module, confirmed))

NextNodeType ==
    \/ TabButton
    \/ TorSelect
    \/ TorRunAsNode
    \/ TorNodeTypeControl

SpecNodeType == Init /\ [][NextNodeType]_vars

(* Claims about the node type, checked under SpecNodeType. *)

\* A click on the node type control has just been handled.
NodeTypeClick ==
    /\ current_tab' = current_tab
    /\ last'.op = "node_type_control"

\* A click while the type is Exit switches it to Relay, confirmed or not.
ExitBackToRelay ==
    [][(NodeTypeClick /\ tor_module.node_type = "Exit")
         => tor_module'.node_type = "Relay"]_vars

\* C39: the node type changes from Relay to Exit only when the user confirms
\* the exit-node warning: a click on the node type control that is not
\* confirmed leaves the type Relay and a confirmed click leaves it Exit; a
\* click while the type is Exit switches it to Relay without confirmation.
C39_ExitOnlyWhenConfirmed ==
    [][NodeTypeClick
         => tor_module'.node_type =
              IF tor_module.node_type = "Exit" THEN "Relay"
              ELSE IF last'.arg.confirmed THEN "Exit" ELSE "Relay"]_vars

\* What the handler does with a click while the type is Relay: the type
\* becomes Exit exactly when the click is not confirmed.
RelayClickInverted ==
    [][(NodeTypeClick /\ tor_module.node_type = "Relay")
         => tor_module'.node_type =
              IF last'.arg.confirmed THEN "Relay" ELSE "Exit"]_vars
====
